---- MODULE Spec2Model ----
(***************************************************************************)
(* The tool-calling agent runtime of gemini_computer_use: the agent loop   *)
(* (ComputerUseAgent.run / AsyncComputerUseAgent.run), the safety gate     *)
(* (get_safety_confirmation inside _execute_function_calls) and the action *)
(* dispatcher (BrowserManager.execute_action), with the browser life cycle *)
(* (start / close).  External collaborators (playwright, the Gemini        *)
(* transport, the human at the prompt) are nondeterministic: each call     *)
(* either returns or raises.                                               *)
(*                                                                         *)
(* The code of AsyncComputerUseAgent and AsyncBrowserManager is that of    *)
(* ComputerUseAgent and BrowserManager with an await at each call of a     *)
(* collaborator; a run is one task, so one set of actions models both.     *)
(*                                                                         *)
(* Optional values (Python None) are sequences of length 0 or 1.           *)
(***************************************************************************)
EXTENDS Integers, Sequences, FiniteSets, TLC

VARIABLES
    max_turns,          \* self.max_turns
    auto_proceed,       \* config flag SAFETY_AUTO_PROCEED read by get_safety_confirmation
    initial_url,        \* argument of run: <<>> is None
    pc,                 \* position of the run in its code
    playwright,         \* BrowserManager.playwright is not None
    browser,            \* BrowserManager.browser is not None
    context,            \* BrowserManager.context is not None
    page,               \* BrowserManager.page is not None
    contents,           \* the conversation
    turn,               \* the loop variable of "for turn in range(self.max_turns)"
    function_calls,     \* the batch of the current turn
    results,            \* the list built by _execute_function_calls
    action_history,
    final_response,
    termination_reason,
    final_screenshot,
    result,             \* <<>> until run returns, then <<the returned dict>>
    raised,             \* <<>> unless run raised, then <<message>>
    \* history variables (observations of the run, never read by it)
    shots,              \* number of screenshots the page has produced
    modelCalls,         \* number of calls of generate_content
    execLog,            \* one entry per call of browser.execute_action
    settles,            \* number of calls of _wait_after_action
    decisions,          \* one entry per call of get_safety_confirmation
    faults,             \* the faults caught by run's except clause, in order
    startCalls,         \* number of calls of browser.start
    closeCalls,         \* number of calls of browser.close
    stopped,            \* playwright.stop() has been called
    visited,            \* the url of the initial navigation, <<>> before it
    modelLog,           \* the latest call of generate_content: what was sent
                        \* (how many turns, and whether they are the whole
                        \* conversation) and what was returned
    dispatch,           \* one call of execute_action followed step by step
    overlap,            \* two runs that overlap in time, and the managers they use
    builder,            \* one FunctionSchemaBuilder at work on a signature
    pointer,            \* one manager's mouse, and the positions it was sent to
    gate                \* one call of get_safety_confirmation, followed step by step

vars == <<max_turns, auto_proceed, initial_url, pc, playwright, browser,
          context, page, contents, turn, function_calls, results, action_history,
          final_response, termination_reason, final_screenshot, result, raised,
          shots, modelCalls, execLog, settles, decisions, faults, startCalls,
          closeCalls, stopped, visited, modelLog, dispatch, overlap, builder, pointer, gate>>

-----------------------------------------------------------------------------
(* Bounds of the model *)

MaxTurnsBound == 3      \* max_turns ranges over -1 .. MaxTurnsBound
MaxParts == 3           \* the model returns at most MaxParts parts in one run
MaxDispatches == 2      \* calls of execute_action followed step by step
MaxBatch == 3           \* requests in the batch of the one-batch specification

-----------------------------------------------------------------------------
(* Values *)

None == <<>>
Some(v) == <<v>>

EmptyDict == [k \in {} |-> ""]

\* a variant in which a non-empty new mapping replaces the old one
Update_Overwrite(old, new) == IF DOMAIN new = {} THEN old ELSE new

\* dict.update: the entries of new override those of old
Update(old, new) == new @@ old

\* actions_map of BrowserManager / AsyncBrowserManager
ActionsMap == {"open_web_browser", "wait_5_seconds", "go_back", "go_forward",
               "search", "navigate", "click_at", "hover_at", "type_text_at",
               "key_combination", "scroll_document", "scroll_at", "drag_and_drop"}

\* the action names the model requests here: one registered, one not
RequestedNames == {"click_at", "fly_to"}

\* the argument mappings the model sends: the keys that matter to the loop
ArgSets == {{}, {"safety_decision"}}

Goal == "search for X"
GivenUrl == "https://example.com"
SearchUrl == "https://www.google.com/"
CurrentUrl == "https://example.com/page"

\* messages of the faults the collaborators raise
StartError == "browser launch failed"
NavError == "navigation failed"
ScreenshotError == "page crashed"
ModelError == "model unavailable"
HandlerError == "click failed"
CloseError == "close failed"
DecisionError == "'explanation'"
IndexError == "list index out of range"
NoCandidatesError == "'NoneType' object is not subscriptable"
SettleError == "Timeout 5000ms exceeded."

\* types.Part: every field optional
Part(text, fc, img, fr) ==
    [text |-> text, function_call |-> fc, inline_data |-> img, function_response |-> fr]

TextPart(t) == Part(Some(t), None, None, None)
CallPart(n, a) == Part(None, Some([name |-> n, args |-> a]), None, None)
ImagePart(img) == Part(None, None, Some(img), None)

\* the parts a model turn is made of
ModelParts ==
    {TextPart("done")} \cup {CallPart(n, a) : n \in RequestedNames, a \in ArgSets}

SeqUpTo(S, n) == UNION {[1..k -> S] : k \in 0..n}

\* the turns the model may return (candidate.content) with at most n parts
ModelTurns(n) == {[role |-> "model", parts |-> ps] : ps \in SeqUpTo(ModelParts, n)}

\* the number of parts the model has returned in the conversation cs
RECURSIVE PartsReturned(_)
PartsReturned(cs) ==
    IF cs = <<>> THEN 0
    ELSE (IF cs[1].role = "model" THEN Len(cs[1].parts) ELSE 0) + PartsReturned(Tail(cs))

-----------------------------------------------------------------------------
(* Pure functions *)

\* " ".join(xs)
RECURSIVE Join(_)
Join(xs) ==
    IF Len(xs) = 0 THEN ""
    ELSE IF Len(xs) = 1 THEN xs[1]
    ELSE xs[1] \o " " \o Join(Tail(xs))

HasCall(p) == p.function_call # None
HasText(p) == p.text # None /\ p.text[1] # ""
CallOf(p) == p.function_call[1]
TextOf(p) == p.text[1]

\* [p.function_call for p in candidate.content.parts if getattr(p, "function_call", None)]
FunctionCallsOf(content) ==
    LET ps == SelectSeq(content.parts, HasCall)
    IN  [k \in 1..Len(ps) |-> CallOf(ps[k])]

\* " ".join([p.text for p in candidate.content.parts if p.text])
FinalTextOf(content) ==
    LET ps == SelectSeq(content.parts, HasText)
    IN  Join([k \in 1..Len(ps) |-> TextOf(ps[k])])

\* GeminiComputerUseClient.build_initial_message
build_initial_message(goal, initial_image) ==
    << [role |-> "user", parts |-> <<TextPart(goal), ImagePart(initial_image)>>] >>

\* a variant that attaches the observation taken before the batch
FunctionResponse_Stale(screenshot, current_url, r) ==
    Part(None, None, None,
         Some([name |-> r[1],
               response |-> Update([url |-> current_url], r[2]),
               data |-> screenshot - 1]))

\* a variant whose response carries the url alone
FunctionResponse_UrlOnly(screenshot, current_url, r) ==
    Part(None, None, None,
         Some([name |-> r[1],
               response |-> [url |-> current_url],
               data |-> screenshot]))

\* GeminiComputerUseClient.build_function_responses_message
FunctionResponse(screenshot, current_url, r) ==
    Part(None, None, None,
         Some([name |-> r[1],
               response |-> Update([url |-> current_url], r[2]),
               data |-> screenshot]))

build_function_responses_message(screenshot, current_url, rs) ==
    [role |-> "user",
     parts |-> [k \in 1..Len(rs) |-> FunctionResponse(screenshot, current_url, rs[k])]]

\* GeminiClient.build_function_responses_message of gemini_standalone: the
\* responses carry no image; the screenshot is one more part of the turn
standalone_build_function_responses_message(screenshot, current_url, rs) ==
    [role |-> "user",
     parts |-> [k \in 1..Len(rs) |->
                   Part(None, None, None,
                        Some([name |-> rs[k][1],
                              response |-> Update([url |-> current_url], rs[k][2])]))]
               \o <<ImagePart(screenshot)>>]

\* utils.get_safety_confirmation: answer is what the user types at the prompt
\* (only the answers that end the prompt loop)
Answers == {"y", "ye", "yes", "n", "no"}

get_safety_confirmation(auto, answer) ==
    IF auto THEN "CONTINUE"
    ELSE IF answer \in {"n", "no"} THEN "TERMINATE"
    ELSE "CONTINUE"

-----------------------------------------------------------------------------
(* The state after construction of the browser manager, client and agent *)

\* no call of execute_action is in progress; n calls have returned
\* no run has been called yet
OverlapIdle ==
    [pc |-> <<"new", "new">>, manager |-> <<0, 0>>, page |-> <<0, 0>>,
     acts |-> <<0, 0>>, cross |-> {}]

\* no builder has been constructed yet
BuilderIdle == [pc |-> "idle"]

\* no manager has been constructed yet
PointerIdle == [pc |-> "idle"]

\* get_safety_confirmation has not been called yet
GateIdle == [pc |-> "idle"]

DispatchIdle(n) ==
    [pc |-> "idle", name |-> "", handler |-> "none", settle |-> "none", ret |-> None,
     calls |-> n]

Init ==
    /\ max_turns \in -1..MaxTurnsBound
    /\ auto_proceed \in BOOLEAN
    /\ initial_url = None
    /\ pc = "idle"
    /\ playwright = FALSE /\ browser = FALSE /\ context = FALSE /\ page = FALSE
    /\ contents = <<>>
    /\ turn = 0
    /\ function_calls = <<>>
    /\ results = <<>>
    /\ action_history = <<>>
    /\ final_response = ""
    /\ termination_reason = "ERROR"
    /\ final_screenshot = None
    /\ result = None
    /\ raised = None
    /\ shots = 0
    /\ modelCalls = 0
    /\ execLog = <<>>
    /\ settles = 0
    /\ decisions = <<>>
    /\ faults = <<>>
    /\ startCalls = 0
    /\ closeCalls = 0
    /\ stopped = FALSE
    /\ visited = None
    /\ modelLog = None
    /\ dispatch = DispatchIdle(0)
    /\ overlap = OverlapIdle
    /\ builder = BuilderIdle
    /\ pointer = PointerIdle
    /\ gate = GateIdle

browserVars == <<playwright, browser, context, page>>
loopVars == <<contents, turn, function_calls, results, action_history>>
outVars == <<final_response, termination_reason>>
sideVars == <<dispatch, overlap, builder, pointer, gate>>
configVars == <<max_turns, auto_proceed, initial_url, visited, sideVars>>
endVars == <<final_screenshot, result, raised>>
logVars == <<shots, modelCalls, execLog, settles, decisions, startCalls, closeCalls, stopped>>

-----------------------------------------------------------------------------
(* run: entry, and the except clause *)

\* a variant that drops the exception's text
ErrorMessage_NoText(e) == "Agent terminated due to error"

\* f"Agent terminated due to error: {e}"
ErrorMessage(e) == "Agent terminated due to error: " \o e

\* the "except Exception as e" clause of run, entered by a fault with message e;
\* control then falls to the finally clause
ExceptClause(e) ==
    /\ final_response' = ErrorMessage(e)
    /\ termination_reason' = "ERROR"
    /\ faults' = Append(faults, e)
    /\ pc' = "finally"

\* run(goal, initial_url) called with one of the given urls: the locals before the
\* try block
RunWith(urls) ==
    /\ pc = "idle"
    /\ \E url \in urls : initial_url' = url
    /\ final_response' = ""
    /\ termination_reason' = "ERROR"
    /\ action_history' = <<>>
    /\ final_screenshot' = None
    /\ pc' = "start"
    /\ UNCHANGED <<max_turns, auto_proceed, visited, sideVars, browserVars, contents,
                   turn, function_calls, results, result, raised, logVars, modelLog,
                   faults>>

\* run(goal) and run(goal, initial_url)
Run == RunWith({None, Some(GivenUrl)})

\* BrowserManager.start: the four handles are assigned in order; a fault at
\* stage k leaves the first k handles set (k = 4: no fault)
Start ==
    /\ pc = "start"
    /\ startCalls' = startCalls + 1
    /\ \E k \in 0..4 :
        /\ playwright' = (k >= 1)
        /\ browser' = (k >= 2)
        /\ context' = (k >= 3)
        /\ page' = (k >= 4)
        /\ IF k = 4
           THEN /\ pc' = "navigate"
                /\ UNCHANGED <<outVars, faults>>
           ELSE ExceptClause(StartError)
    /\ UNCHANGED <<configVars, loopVars, endVars, shots, modelCalls, modelLog, execLog,
                   settles, decisions, closeCalls, stopped>>

\* a variant of the test "if initial_url:" that takes the empty string for a url
Truthy_NotNone(url) == url # None

\* "if initial_url:": None and the empty string are false
Truthy(url) == url # None /\ url[1] # ""

\* "if initial_url: self.browser.goto(initial_url) else: self.browser.search()"
Navigate ==
    /\ pc = "navigate"
    /\ \E ok \in BOOLEAN :
        IF ok
        THEN /\ visited' = IF Truthy(initial_url) THEN initial_url ELSE Some(SearchUrl)
             /\ pc' = "capture_initial"
             /\ UNCHANGED <<outVars, faults>>
        ELSE /\ ExceptClause(NavError)
             /\ UNCHANGED visited
    /\ UNCHANGED <<max_turns, auto_proceed, initial_url, sideVars, browserVars, loopVars,
                   endVars, logVars, modelLog>>

\* initial_image = capture_screen(); contents = build_initial_message(goal, initial_image)
CaptureInitial ==
    /\ pc = "capture_initial"
    /\ \E ok \in BOOLEAN :
        IF ok
        THEN /\ shots' = shots + 1
             /\ contents' = build_initial_message(Goal, shots + 1)
             /\ turn' = 0
             /\ pc' = "loop"
             /\ UNCHANGED <<outVars, faults>>
        ELSE /\ ExceptClause(ScreenshotError)
             /\ UNCHANGED <<shots, contents, turn>>
    /\ UNCHANGED <<configVars, browserVars, function_calls, results, action_history,
                   endVars, modelCalls, modelLog, execLog, settles, decisions, startCalls,
                   closeCalls, stopped>>

-----------------------------------------------------------------------------
(* The loop of run *)

\* a variant that runs one iteration more
InRange_OneMore(t) == t <= max_turns

\* the condition of "for turn in range(self.max_turns)": there is a next iteration
InRange(t) == t < max_turns

\* a variant that leaves the termination reason as initialised
CompleteWith_NoReason(content) ==
    /\ final_response' = FinalTextOf(content)
    /\ UNCHANGED termination_reason
    /\ pc' = "finally"

\* the branch "if not function_calls": the text parts of the turn are the final
\* answer, and the break leaves the loop without its else clause
CompleteWith(content) ==
    /\ final_response' = FinalTextOf(content)
    /\ termination_reason' = "COMPLETED"
    /\ pc' = "finally"

\* a variant that sends the latest turn only
Request_LastOnly(cs) == <<cs[Len(cs)]>>

\* "self.client.generate_content(contents)": the conversation passed to the model
Request(cs) == cs

\* the record of a call of generate_content with the conversation cs
Sent(cs, reply) == [turns |-> Len(cs), whole |-> cs = contents, reply |-> reply]

\* one iteration of the for loop of run up to the decision: generate_content,
\* candidates[0], contents.append, the function_calls list, and the
\* "if not function_calls" branch
ModelCall ==
    /\ pc = "loop"
    /\ InRange(turn)
    /\ modelCalls' = modelCalls + 1
    /\ \/ /\ ExceptClause(ModelError)
          /\ modelLog' = Some(Sent(Request(contents), None))
          /\ UNCHANGED <<contents, function_calls, results>>
       \/ /\ ExceptClause(NoCandidatesError)
          /\ modelLog' = Some(Sent(Request(contents), None))
          /\ UNCHANGED <<contents, function_calls, results>>
       \/ \E content \in ModelTurns(MaxParts - PartsReturned(contents)) :
            /\ modelLog' = Some(Sent(Request(contents), Some(content)))
            /\ contents' = Append(contents, content)
            /\ function_calls' = FunctionCallsOf(content)
            /\ IF FunctionCallsOf(content) = <<>>
               THEN /\ CompleteWith(content)
                    /\ UNCHANGED results
               ELSE /\ results' = <<>>
                    /\ pc' = "execute"
                    /\ UNCHANGED outVars
            /\ UNCHANGED faults
    /\ UNCHANGED <<configVars, browserVars, turn, action_history, endVars, shots,
                   execLog, settles, decisions, startCalls, closeCalls, stopped>>

\* a variant in which the else clause belongs to the "if not function_calls" test
\* and is skipped when the range is exhausted
Exhausted_NoElse ==
    /\ pc = "loop"
    /\ ~InRange(turn)
    /\ pc' = "finally"
    /\ UNCHANGED <<configVars, browserVars, loopVars, outVars, endVars, logVars, modelLog,
                   faults>>

\* the else clause of the for loop: the range is exhausted without a break
Exhausted ==
    /\ pc = "loop"
    /\ ~InRange(turn)
    /\ final_response' = "Goal not completed within the maximum turn limit."
    /\ termination_reason' = "MAX_TURNS_EXCEEDED"
    /\ pc' = "finally"
    /\ UNCHANGED <<configVars, browserVars, loopVars, endVars, logVars, modelLog, faults>>

\* BrowserManager.execute_action(action_name, action_args): the result, given what
\* the handler does ("ok": returns and the page settles, "settle_timeout": returns
\* and wait_for_load_state times out, "raise": raises HandlerError)
\* (the source quotes the name in the warning with backquotes, left out here)
HandlerOutcomes == {"ok", "settle_timeout", "raise"}

\* a variant without the "if not execution_method" test: calling the missing
\* handler raises, and the except clause reports it
execute_action_NoLookup(action_name, outcome) ==
    IF action_name \notin ActionsMap
    THEN [error |-> "'NoneType' object is not callable"]
    ELSE IF outcome = "raise"
    THEN [error |-> HandlerError]
    ELSE EmptyDict

\* a variant whose except clause returns the success result
execute_action_Swallow(action_name, outcome) ==
    IF action_name \notin ActionsMap
    THEN [warning |-> "Action " \o action_name \o " was not implemented"]
    ELSE EmptyDict

execute_action(action_name, outcome) ==
    IF action_name \notin ActionsMap
    THEN [warning |-> "Action " \o action_name \o " was not implemented"]
    ELSE IF outcome = "raise"
    THEN [error |-> HandlerError]
    ELSE EmptyDict

\* execute_action reaches its call of _wait_after_action
WaitsAfterAction(action_name, outcome) ==
    action_name \in ActionsMap /\ outcome # "raise"

\* a variant in which a result that is not the empty mapping ends the batch
Dispatch_StopsOnFault(fc, action_result) ==
    \E outcome \in HandlerOutcomes :
        LET r == execute_action(fc.name, outcome)
            invoked == fc.name \in ActionsMap
        IN  /\ results' = Append(results, <<fc.name, Update(action_result, r)>>)
            /\ settles' = settles + (IF WaitsAfterAction(fc.name, outcome) THEN 1 ELSE 0)
            /\ execLog' = Append(execLog,
                            [turn |-> turn + 1, name |-> fc.name, args |-> fc.args,
                             handler |-> IF ~invoked THEN "not_invoked"
                                         ELSE IF outcome = "raise" THEN "raised"
                                         ELSE "returned",
                             result |-> r])
            /\ pc' = IF Len(results) + 1 = Len(function_calls) \/ r # EmptyDict
                     THEN "record" ELSE "execute"

\* "result = self.browser.execute_action(fc_name, fc_args);
\*  action_result.update(result); results.append((fc_name, action_result))"
\* and the next iteration, or the return after the last request
Dispatch(fc, action_result) ==
    \E outcome \in HandlerOutcomes :
        LET r == execute_action(fc.name, outcome)
            invoked == fc.name \in ActionsMap
        IN  /\ results' = Append(results, <<fc.name, Update(action_result, r)>>)
            /\ settles' = settles + (IF WaitsAfterAction(fc.name, outcome) THEN 1 ELSE 0)
            /\ execLog' = Append(execLog,
                            [turn |-> turn + 1, name |-> fc.name, args |-> fc.args,
                             handler |-> IF ~invoked THEN "not_invoked"
                                         ELSE IF outcome = "raise" THEN "raised"
                                         ELSE "returned",
                             result |-> r])
            /\ pc' = IF Len(results) + 1 = Len(function_calls) THEN "record" ELSE "execute"

\* a variant without the break: the refused request is dispatched like any other
Break_Dispatches(fc) == Dispatch(fc, EmptyDict)

\* "if decision == 'TERMINATE': break": the loop of _execute_function_calls ends
\* with the results gathered so far
Break(fc) ==
    /\ pc' = "record"
    /\ UNCHANGED <<results, settles, execLog>>

\* a variant that never consults the safety gate
Flagged_Never(fc) == FALSE

\* "if 'safety_decision' in fc_args"
Flagged(fc) == "safety_decision" \in fc.args

\* one iteration of the for loop of _execute_function_calls, on the request after
\* those already in results; the loop's end (or its break) returns to run
ExecuteFunctionCall ==
    /\ pc = "execute"
    /\ LET fc == function_calls[Len(results) + 1] IN
        IF Flagged(fc)
        THEN \/ \* get_safety_confirmation raises (no 'explanation' key)
                /\ ExceptClause(DecisionError)
                /\ UNCHANGED <<results, settles, execLog, decisions>>
             \/ \E answer \in Answers :
                LET decision == get_safety_confirmation(auto_proceed, answer) IN
                /\ decisions' = Append(decisions,
                                    [decision |-> decision, turn |-> turn + 1,
                                     request |-> Len(results) + 1,
                                     dispatched |-> Len(execLog),
                                     modelCalls |-> modelCalls])
                /\ UNCHANGED <<outVars, faults>>
                /\ IF decision = "TERMINATE"
                   THEN Break(fc)
                   ELSE Dispatch(fc, [safety_acknowledgement |-> "true"])
        ELSE /\ Dispatch(fc, EmptyDict)
             /\ UNCHANGED <<outVars, faults, decisions>>
    /\ UNCHANGED <<configVars, browserVars, contents, turn, function_calls, action_history,
                   endVars, shots, modelCalls, modelLog, startCalls, closeCalls, stopped>>

\* a variant that pairs every request of the batch with the first result
HistoryEntry_FirstResult(i) ==
    [turn |-> turn + 1,
     action_name |-> function_calls[i].name,
     action_args |-> function_calls[i].args,
     result |-> results[1][2]]

\* a variant that records the zero-based loop variable
HistoryEntry_ZeroBased(i) ==
    [turn |-> turn,
     action_name |-> function_calls[i].name,
     action_args |-> function_calls[i].args,
     result |-> results[i][2]]

\* the entry run appends for request i of the batch
HistoryEntry(i) ==
    [turn |-> turn + 1,
     action_name |-> function_calls[i].name,
     action_args |-> function_calls[i].args,
     result |-> results[i][2]]

\* a variant that keeps the entries of the latest batch only
RecordHistory_Overwrite ==
    /\ pc = "record"
    /\ LET n == IF Len(results) < Len(function_calls)
                THEN Len(results) ELSE Len(function_calls)
       IN  action_history' = [i \in 1..n |-> HistoryEntry(i)]
    /\ IF Len(results) < Len(function_calls)
       THEN ExceptClause(IndexError)
       ELSE /\ pc' = "observe"
            /\ UNCHANGED <<outVars, faults>>
    /\ UNCHANGED <<configVars, browserVars, contents, turn, function_calls, results,
                   endVars, logVars, modelLog>>

\* a variant that records the results there are and goes on to the response turn
RecordHistory_Lenient ==
    /\ pc = "record"
    /\ action_history' = action_history \o [i \in 1..Len(results) |-> HistoryEntry(i)]
    /\ pc' = "observe"
    /\ UNCHANGED <<outVars, faults>>
    /\ UNCHANGED <<configVars, browserVars, contents, turn, function_calls, results,
                   endVars, logVars, modelLog>>

\* "for i, fc in enumerate(function_calls): action_history.append(...)": the entries
\* are appended one by one, and action_results[i] raises IndexError at the first
\* request that has no result
RecordHistory ==
    /\ pc = "record"
    /\ LET n == IF Len(results) < Len(function_calls)
                THEN Len(results) ELSE Len(function_calls)
       IN  action_history' = action_history \o [i \in 1..n |-> HistoryEntry(i)]
    /\ IF Len(results) < Len(function_calls)
       THEN ExceptClause(IndexError)
       ELSE /\ pc' = "observe"
            /\ UNCHANGED <<outVars, faults>>
    /\ UNCHANGED <<configVars, browserVars, contents, turn, function_calls, results,
                   endVars, logVars, modelLog>>

\* a variant that does not count the iteration: the loop variable stays as it is
Observe_SameTurn ==
    /\ pc = "observe"
    /\ \E ok \in BOOLEAN :
        IF ok
        THEN /\ shots' = shots + 1
             /\ contents' = Append(contents,
                    build_function_responses_message(shots + 1, CurrentUrl, results))
             /\ turn' = turn
             /\ pc' = "loop"
             /\ UNCHANGED <<outVars, faults>>
        ELSE /\ ExceptClause(ScreenshotError)
             /\ UNCHANGED <<shots, contents, turn>>
    /\ UNCHANGED <<configVars, browserVars, function_calls, results, action_history,
                   endVars, modelCalls, modelLog, execLog, settles, decisions, startCalls,
                   closeCalls, stopped>>

\* capture_screen, get_current_url, build_function_responses_message,
\* contents.append; then the next iteration
Observe ==
    /\ pc = "observe"
    /\ \E ok \in BOOLEAN :
        IF ok
        THEN /\ shots' = shots + 1
             /\ contents' = Append(contents,
                    build_function_responses_message(shots + 1, CurrentUrl, results))
             /\ turn' = turn + 1
             /\ pc' = "loop"
             /\ UNCHANGED <<outVars, faults>>
        ELSE /\ ExceptClause(ScreenshotError)
             /\ UNCHANGED <<shots, contents, turn>>
    /\ UNCHANGED <<configVars, browserVars, function_calls, results, action_history,
                   endVars, modelCalls, modelLog, execLog, settles, decisions, startCalls,
                   closeCalls, stopped>>

-----------------------------------------------------------------------------
(* The finally clause of run, and the return *)

\* the dict run returns
RunResult(screenshot) ==
    [final_message |-> final_response,
     action_history |-> action_history,
     termination_reason |-> termination_reason,
     final_screenshot_bytes |-> screenshot]

\* BrowserManager.close: closeOk: browser.close() returns; stopOk: playwright.stop()
\* returns.  The first fault skips the rest of the try block and is raised again;
\* the finally clause of close clears the four handles in every case.
CloseFails(closeOk, stopOk) ==
    \/ browser /\ ~closeOk
    \/ playwright /\ ~stopOk

StopCalled(closeOk) == playwright /\ ~(browser /\ ~closeOk)

close(closeOk) ==
    /\ closeCalls' = closeCalls + 1
    /\ stopped' = (stopped \/ StopCalled(closeOk))
    /\ playwright' = FALSE /\ browser' = FALSE /\ context' = FALSE /\ page' = FALSE

\* the finally clause of run and its return statement:
\*   if self.browser and self.browser.page: final_screenshot = capture_screen()
\*   self.browser.close()
\* a fault of capture_screen leaves the clause at once, before close is called; a
\* fault of either leaves run with that fault
Finally ==
    /\ pc = "finally"
    /\ \E captureOk \in BOOLEAN, closeOk \in BOOLEAN, stopOk \in BOOLEAN :
        IF page /\ ~captureOk
        THEN /\ raised' = Some(ScreenshotError)
             /\ pc' = "raised"
             /\ UNCHANGED <<shots, final_screenshot, result, browserVars, closeCalls, stopped>>
        ELSE /\ shots' = IF page THEN shots + 1 ELSE shots
             /\ final_screenshot' = IF page THEN Some(shots + 1) ELSE final_screenshot
             /\ close(closeOk)
             /\ IF CloseFails(closeOk, stopOk)
                THEN /\ raised' = Some(CloseError)
                     /\ pc' = "raised"
                     /\ UNCHANGED result
                ELSE /\ result' = Some(RunResult(final_screenshot'))
                     /\ pc' = "returned"
                     /\ UNCHANGED raised
    /\ UNCHANGED <<configVars, loopVars, outVars, faults, modelCalls, modelLog, execLog,
                   settles, decisions, startCalls>>

-----------------------------------------------------------------------------
(* BrowserManager.execute_action and _wait_after_action, statement by statement. *)
(* The agent is left aside: the caller is any sequence of calls.               *)

mainVars == <<max_turns, auto_proceed, initial_url, pc, playwright, browser, context,
              page, contents, turn, function_calls, results, action_history,
              final_response, termination_reason, final_screenshot, result, raised,
              shots, modelCalls, execLog, settles, decisions, faults, startCalls,
              closeCalls, stopped, visited, modelLog>>

agentVars == <<mainVars, overlap, builder, pointer, gate>>

\* the names a caller may pass: the registered ones and one that is not
CalledNames == ActionsMap \cup {"fly_to"}

\* "execution_method = self.actions_map.get(action_name); if not execution_method:
\*  return {warning: ...}": the call and the lookup
ExecuteActionCall ==
    /\ dispatch.pc = "idle"
    /\ dispatch.calls < MaxDispatches
    /\ \E action_name \in CalledNames :
        dispatch' =
            IF action_name \notin ActionsMap
            THEN [DispatchIdle(dispatch.calls) EXCEPT
                    !.pc = "done", !.name = action_name,
                    !.ret = Some([warning |-> "Action " \o action_name
                                               \o " was not implemented"])]
            ELSE [DispatchIdle(dispatch.calls) EXCEPT
                    !.pc = "handler", !.name = action_name]
    /\ UNCHANGED agentVars

\* a variant whose except clause keeps a warning next to the error
Handler_Both ==
    /\ dispatch.pc = "handler"
    /\ \/ dispatch' = [dispatch EXCEPT !.handler = "returned", !.pc = "settle"]
       \/ dispatch' = [dispatch EXCEPT !.handler = "raised", !.pc = "done",
                                       !.ret = Some([error |-> HandlerError,
                                                     warning |-> "Action failed"])]
    /\ UNCHANGED agentVars

\* "execution_method(**action_args)": the handler returns, or raises and the except
\* clause of execute_action returns {error: str(e)}
Handler ==
    /\ dispatch.pc = "handler"
    /\ \/ dispatch' = [dispatch EXCEPT !.handler = "returned", !.pc = "settle"]
       \/ dispatch' = [dispatch EXCEPT !.handler = "raised", !.pc = "done",
                                       !.ret = Some([error |-> HandlerError])]
    /\ UNCHANGED agentVars

\* a variant without the try block of _wait_after_action: the timeout reaches the
\* except clause of execute_action
WaitForLoadState_Propagates ==
    /\ dispatch.pc = "settle"
    /\ \/ dispatch' = [dispatch EXCEPT !.settle = "idle", !.pc = "sleep"]
       \/ dispatch' = [dispatch EXCEPT !.settle = "timeout", !.pc = "done",
                                       !.ret = Some([error |-> SettleError])]
    /\ UNCHANGED agentVars

\* _wait_after_action, first statement: "try: page.wait_for_load_state('networkidle',
\* timeout=5000) except Exception: pass": the page gets idle, or the wait times out
\* and the exception is dropped
WaitForLoadState ==
    /\ dispatch.pc = "settle"
    /\ \E outcome \in {"idle", "timeout"} :
        dispatch' = [dispatch EXCEPT !.settle = outcome, !.pc = "sleep"]
    /\ UNCHANGED agentVars

\* _wait_after_action, second statement: "time.sleep(0.5)", and the "return {}" of
\* execute_action
Sleep ==
    /\ dispatch.pc = "sleep"
    /\ dispatch' = [dispatch EXCEPT !.pc = "done", !.ret = Some(EmptyDict)]
    /\ UNCHANGED agentVars

\* the caller has the result and may call again
ExecuteActionReturn ==
    /\ dispatch.pc = "done"
    /\ dispatch' = DispatchIdle(dispatch.calls + 1)
    /\ UNCHANGED agentVars

DispatchInit == Init /\ max_turns = 1 /\ auto_proceed = FALSE

DispatchNext ==
    \/ ExecuteActionCall
    \/ Handler
    \/ WaitForLoadState
    \/ Sleep
    \/ ExecuteActionReturn

DispatchSpec == DispatchInit /\ [][DispatchNext]_vars

-----------------------------------------------------------------------------

Next ==
    \/ Run
    \/ Start
    \/ Navigate
    \/ CaptureInitial
    \/ ModelCall
    \/ Exhausted
    \/ ExecuteFunctionCall
    \/ RecordHistory
    \/ Observe
    \/ Finally

Spec == Init /\ [][Next]_vars

-----------------------------------------------------------------------------
(* One iteration of the loop of run on its own, from the point where the first *)
(* model turn has been appended and carries a batch: _execute_function_calls,   *)
(* the history loop and the action-response turn.                               *)

\* the model turns that are a batch of 1 .. MaxBatch action requests
BatchTurns ==
    {[role |-> "model", parts |-> ps] :
        ps \in SeqUpTo({CallPart(n, a) : n \in RequestedNames, a \in ArgSets}, MaxBatch)
               \ {<<>>}}

\* the state of a run with max_turns = 1 and no initial url, after browser.start,
\* search, the initial capture and the first model call
BatchInit ==
    /\ max_turns = 1
    /\ auto_proceed \in BOOLEAN
    /\ initial_url = None
    /\ visited = Some(SearchUrl)
    /\ pc = "execute"
    /\ playwright = TRUE /\ browser = TRUE /\ context = TRUE /\ page = TRUE
    /\ \E content \in BatchTurns :
        /\ contents = Append(build_initial_message(Goal, 1), content)
        /\ function_calls = FunctionCallsOf(content)
        /\ modelLog = Some([turns |-> 1, whole |-> TRUE, reply |-> Some(content)])
    /\ turn = 0
    /\ results = <<>>
    /\ action_history = <<>>
    /\ final_response = ""
    /\ termination_reason = "ERROR"
    /\ final_screenshot = None
    /\ result = None
    /\ raised = None
    /\ shots = 1
    /\ modelCalls = 1
    /\ execLog = <<>>
    /\ settles = 0
    /\ decisions = <<>>
    /\ faults = <<>>
    /\ startCalls = 1
    /\ closeCalls = 0
    /\ stopped = FALSE
    /\ dispatch = DispatchIdle(0)
    /\ overlap = OverlapIdle
    /\ builder = BuilderIdle
    /\ pointer = PointerIdle
    /\ gate = GateIdle

BatchNext ==
    \/ ExecuteFunctionCall
    \/ RecordHistory
    \/ Observe

BatchSpec == BatchInit /\ [][BatchNext]_vars

-----------------------------------------------------------------------------
(* Runs with a small turn budget, called with every kind of initial_url: none, *)
(* the empty string of the request model of the API, and a url.                *)

MaxShortTurns == 1

\* the values of initial_url: the default of run, the default of AgentRunRequest.url,
\* and a url
InitialUrls == {None, Some(""), Some(GivenUrl)}

RunAny == RunWith(InitialUrls)

ShortInit == Init /\ max_turns \in -1..MaxShortTurns

ShortNext ==
    \/ RunAny
    \/ Start
    \/ Navigate
    \/ CaptureInitial
    \/ ModelCall
    \/ Exhausted
    \/ ExecuteFunctionCall
    \/ RecordHistory
    \/ Observe
    \/ Finally

ShortSpec == ShortInit /\ [][ShortNext]_vars

-----------------------------------------------------------------------------
(* AsyncComputerUseAgent.run and AsyncBrowserManager: the cooperative variant, *)
(* translated from its own code.  A single run is resumed after each await     *)
(* with the awaited value or fault, so each action below spans the same        *)
(* statements as the action of the blocking variant it is compared with.       *)

\* "except Exception as e:" of the cooperative run
AsyncExceptClause(e) ==
    /\ final_response' = "Agent terminated due to error: " \o e
    /\ termination_reason' = "ERROR"
    /\ faults' = Append(faults, e)
    /\ pc' = "finally"

\* "async def run(self, goal, initial_url=None)": the locals before the try block
AsyncRunWith(urls) ==
    /\ pc = "idle"
    /\ \E url \in urls : initial_url' = url
    /\ final_response' = ""
    /\ termination_reason' = "ERROR"
    /\ action_history' = <<>>
    /\ final_screenshot' = None
    /\ pc' = "start"
    /\ UNCHANGED <<max_turns, auto_proceed, visited, sideVars, browserVars, contents,
                   turn, function_calls, results, result, raised, logVars, modelLog,
                   faults>>

AsyncRunAny == AsyncRunWith(InitialUrls)

\* "await self.browser.start()": AsyncBrowserManager.start awaits
\* async_playwright().start(), chromium.launch, new_context and new_page in turn
AsyncStart ==
    /\ pc = "start"
    /\ startCalls' = startCalls + 1
    /\ \E k \in 0..4 :
        /\ playwright' = (k >= 1) /\ browser' = (k >= 2)
        /\ context' = (k >= 3) /\ page' = (k >= 4)
        /\ IF k < 4
           THEN AsyncExceptClause(StartError)
           ELSE pc' = "navigate" /\ UNCHANGED <<outVars, faults>>
    /\ UNCHANGED <<configVars, loopVars, endVars, shots, modelCalls, modelLog, execLog,
                   settles, decisions, closeCalls, stopped>>

\* "if initial_url: await self.browser.goto(initial_url)
\*  else: await self.browser.search()"
AsyncNavigate ==
    /\ pc = "navigate"
    /\ \/ /\ Truthy(initial_url)
          /\ visited' = initial_url
          /\ pc' = "capture_initial"
          /\ UNCHANGED <<outVars, faults>>
       \/ /\ ~Truthy(initial_url)
          /\ visited' = Some(SearchUrl)
          /\ pc' = "capture_initial"
          /\ UNCHANGED <<outVars, faults>>
       \/ /\ AsyncExceptClause(NavError)
          /\ UNCHANGED visited
    /\ UNCHANGED <<max_turns, auto_proceed, initial_url, sideVars, browserVars, loopVars,
                   endVars, logVars, modelLog>>

\* "initial_image = await self.browser.capture_screen();
\*  contents = self.llm.build_initial_message(goal, initial_image)"
AsyncCaptureInitial ==
    /\ pc = "capture_initial"
    /\ \/ /\ shots' = shots + 1
          /\ contents' = build_initial_message(Goal, shots')
          /\ turn' = 0
          /\ pc' = "loop"
          /\ UNCHANGED <<outVars, faults>>
       \/ /\ AsyncExceptClause(ScreenshotError)
          /\ UNCHANGED <<shots, contents, turn>>
    /\ UNCHANGED <<configVars, browserVars, function_calls, results, action_history,
                   endVars, modelCalls, modelLog, execLog, settles, decisions, startCalls,
                   closeCalls, stopped>>

\* "await self.llm.generate_content_async(contents)": the conversation passed
AsyncRequest(cs) == cs

\* one iteration of the for loop of the cooperative run up to the decision
AsyncModelCall ==
    /\ pc = "loop"
    /\ turn < max_turns
    /\ modelCalls' = modelCalls + 1
    /\ \/ /\ \E e \in {ModelError, NoCandidatesError} : AsyncExceptClause(e)
          /\ modelLog' = Some(Sent(AsyncRequest(contents), None))
          /\ UNCHANGED <<contents, function_calls, results>>
       \/ \E content \in ModelTurns(MaxParts - PartsReturned(contents)) :
            LET calls == FunctionCallsOf(content) IN
            /\ modelLog' = Some(Sent(AsyncRequest(contents), Some(content)))
            /\ contents' = Append(contents, content)
            /\ function_calls' = calls
            /\ UNCHANGED faults
            /\ \/ /\ calls = <<>>
                  /\ final_response' = FinalTextOf(content)
                  /\ termination_reason' = "COMPLETED"
                  /\ pc' = "finally"
                  /\ UNCHANGED results
               \/ /\ calls # <<>>
                  /\ results' = <<>>
                  /\ pc' = "execute"
                  /\ UNCHANGED outVars
    /\ UNCHANGED <<configVars, browserVars, turn, action_history, endVars, shots,
                   execLog, settles, decisions, startCalls, closeCalls, stopped>>

\* the else clause of the for loop of the cooperative run
AsyncExhausted ==
    /\ pc = "loop"
    /\ turn >= max_turns
    /\ final_response' = "Goal not completed within the maximum turn limit."
    /\ termination_reason' = "MAX_TURNS_EXCEEDED"
    /\ pc' = "finally"
    /\ UNCHANGED <<configVars, browserVars, loopVars, endVars, logVars, modelLog, faults>>

\* a variant that calls the handler without awaiting it: the handler's fault is
\* never raised inside execute_action
async_execute_action_NotAwaited(action_name, outcome) ==
    IF action_name \notin ActionsMap
    THEN [warning |-> "Action " \o action_name \o " was not implemented"]
    ELSE EmptyDict

\* AsyncBrowserManager.execute_action(action_name, action_args): the lookup, the
\* awaited handler, the awaited _wait_after_action, and the except clause
async_execute_action(action_name, outcome) ==
    CASE action_name \notin ActionsMap ->
            [warning |-> "Action " \o action_name \o " was not implemented"]
      [] action_name \in ActionsMap /\ outcome = "raise" -> [error |-> HandlerError]
      [] OTHER -> EmptyDict

\* one iteration of the for loop of the cooperative _execute_function_calls:
\*   if "safety_decision" in fc_args: decision = get_safety_confirmation(...);
\*       if decision == "TERMINATE": break
\*       action_result["safety_acknowledgement"] = "true"
\*   result = await self.browser.execute_action(fc_name, fc_args)
\*   action_result.update(result); results.append((fc_name, action_result))
AsyncExecuteFunctionCall ==
    /\ pc = "execute"
    /\ LET k == Len(results) + 1
           fc == function_calls[k]
           gated == "safety_decision" \in fc.args
           Executed(action_result) ==
              \E outcome \in HandlerOutcomes :
                LET r == async_execute_action(fc.name, outcome) IN
                /\ results' = Append(results, <<fc.name, r @@ action_result>>)
                /\ settles' = IF fc.name \in ActionsMap /\ outcome # "raise"
                              THEN settles + 1 ELSE settles
                /\ execLog' = Append(execLog,
                                [turn |-> turn + 1, name |-> fc.name, args |-> fc.args,
                                 handler |-> CASE fc.name \notin ActionsMap -> "not_invoked"
                                               [] fc.name \in ActionsMap /\ outcome = "raise"
                                                    -> "raised"
                                               [] OTHER -> "returned",
                                 result |-> r])
                /\ pc' = IF k = Len(function_calls) THEN "record" ELSE "execute"
       IN  \/ /\ ~gated
              /\ Executed(EmptyDict)
              /\ UNCHANGED <<outVars, faults, decisions>>
           \/ /\ gated
              /\ AsyncExceptClause(DecisionError)
              /\ UNCHANGED <<results, settles, execLog, decisions>>
           \/ /\ gated
              /\ \E answer \in Answers :
                  LET decision == get_safety_confirmation(auto_proceed, answer) IN
                  /\ decisions' = Append(decisions,
                                    [decision |-> decision, turn |-> turn + 1,
                                     request |-> k, dispatched |-> Len(execLog),
                                     modelCalls |-> modelCalls])
                  /\ UNCHANGED <<outVars, faults>>
                  /\ \/ /\ decision = "TERMINATE"
                        /\ pc' = "record"
                        /\ UNCHANGED <<results, settles, execLog>>
                     \/ /\ decision # "TERMINATE"
                        /\ Executed([safety_acknowledgement |-> "true"])
    /\ UNCHANGED <<configVars, browserVars, contents, turn, function_calls, action_history,
                   endVars, shots, modelCalls, modelLog, startCalls, closeCalls, stopped>>

\* "for i, fc in enumerate(function_calls): action_history.append({...,
\*  'result': action_results[i][1]})" of the cooperative run
AsyncRecordHistory ==
    /\ pc = "record"
    /\ LET Entry(i) == [turn |-> turn + 1,
                        action_name |-> function_calls[i].name,
                        action_args |-> function_calls[i].args,
                        result |-> results[i][2]]
           short == Len(results) < Len(function_calls)
           n == IF short THEN Len(results) ELSE Len(function_calls)
       IN  /\ action_history' = action_history \o [i \in 1..n |-> Entry(i)]
           /\ IF short
              THEN AsyncExceptClause(IndexError)
              ELSE pc' = "observe" /\ UNCHANGED <<outVars, faults>>
    /\ UNCHANGED <<configVars, browserVars, contents, turn, function_calls, results,
                   endVars, logVars, modelLog>>

\* "screenshot = await self.browser.capture_screen(); current_url = await
\*  self.browser.get_current_url(); contents.append(build_function_responses_message(...))"
AsyncObserve ==
    /\ pc = "observe"
    /\ \/ /\ shots' = shots + 1
          /\ contents' = Append(contents,
                            build_function_responses_message(shots', CurrentUrl, results))
          /\ turn' = turn + 1
          /\ pc' = "loop"
          /\ UNCHANGED <<outVars, faults>>
       \/ /\ AsyncExceptClause(ScreenshotError)
          /\ UNCHANGED <<shots, contents, turn>>
    /\ UNCHANGED <<configVars, browserVars, function_calls, results, action_history,
                   endVars, modelCalls, modelLog, execLog, settles, decisions, startCalls,
                   closeCalls, stopped>>

\* the finally clause of the cooperative run and its return statement:
\*   if self.browser and self.browser.page:
\*       final_screenshot = await self.browser.capture_screen()
\*   await self.browser.close()
\* with AsyncBrowserManager.close: "if self.browser: await self.browser.close();
\* if self.playwright: await self.playwright.stop()", the fault raised again, and
\* the four handles cleared in its finally clause
AsyncFinally ==
    /\ pc = "finally"
    /\ \/ /\ page
          /\ raised' = Some(ScreenshotError)
          /\ pc' = "raised"
          /\ UNCHANGED <<shots, final_screenshot, result, browserVars, closeCalls, stopped>>
       \/ /\ shots' = shots + (IF page THEN 1 ELSE 0)
          /\ final_screenshot' = IF page THEN Some(shots') ELSE final_screenshot
          /\ closeCalls' = closeCalls + 1
          /\ playwright' = FALSE /\ browser' = FALSE /\ context' = FALSE /\ page' = FALSE
          /\ \/ \* browser.close() raises: playwright.stop() is skipped
                /\ browser
                /\ UNCHANGED stopped
                /\ raised' = Some(CloseError)
                /\ pc' = "raised"
                /\ UNCHANGED result
             \/ \* playwright.stop() is called and raises
                /\ playwright
                /\ stopped' = TRUE
                /\ raised' = Some(CloseError)
                /\ pc' = "raised"
                /\ UNCHANGED result
             \/ \* both return, or are skipped for a handle that is None
                /\ stopped' = (stopped \/ playwright)
                /\ result' = Some([final_message |-> final_response,
                                   action_history |-> action_history,
                                   termination_reason |-> termination_reason,
                                   final_screenshot_bytes |-> final_screenshot'])
                /\ pc' = "returned"
                /\ UNCHANGED raised
    /\ UNCHANGED <<configVars, loopVars, outVars, faults, modelCalls, modelLog, execLog,
                   settles, decisions, startCalls>>

AsyncShortNext ==
    \/ AsyncRunAny
    \/ AsyncStart
    \/ AsyncNavigate
    \/ AsyncCaptureInitial
    \/ AsyncModelCall
    \/ AsyncExhausted
    \/ AsyncExecuteFunctionCall
    \/ AsyncRecordHistory
    \/ AsyncObserve
    \/ AsyncFinally

-----------------------------------------------------------------------------
(* Two runs of the cooperative variant that overlap in time.  A run holds the  *)
(* surface through its agent's manager (self.browser.page); its conversation   *)
(* is the local "contents" of run.  A step is what a run does between two      *)
(* awaits; start, which awaits four times, is taken as one step.               *)

MaxOverlapActs == 1

OverlapRuns == {1, 2}

\* the two run() calls: on the agents of two requests to run_agent_async, each
\* built with a manager of its own (<<1, 2>>), or on one agent instance (<<1, 1>>)
Construct ==
    /\ overlap.pc = <<"new", "new">>
    /\ \E managers \in {<<1, 2>>, <<1, 1>>} :
        overlap' = [overlap EXCEPT !.manager = managers, !.pc = <<"start", "start">>]
    /\ UNCHANGED <<mainVars, dispatch, builder, pointer, gate>>

\* what run r does to the surface its manager holds, when run "owner" started it
Touched(r, owner, ops) ==
    overlap.cross \cup
        (IF owner # r THEN {[by |-> r, owner |-> owner, op |-> op] : op \in ops} ELSE {})

\* "await self.browser.start()": the manager's handles are assigned anew
OverlapStart(r) ==
    /\ overlap.pc[r] = "start"
    /\ overlap' = [overlap EXCEPT !.page[overlap.manager[r]] = r, !.pc[r] = "navigate"]
    /\ UNCHANGED <<mainVars, dispatch, builder, pointer, gate>>

\* goto / search, capture_screen, and execute_action with the capture after it: the
\* manager's page is used; a page that is None raises AttributeError, caught by the
\* except clause of run
OverlapUse(r) ==
    /\ overlap.pc[r] \in {"navigate", "capture", "act"}
    /\ LET owner == overlap.page[overlap.manager[r]] IN
        IF owner = 0
        THEN overlap' = [overlap EXCEPT !.pc[r] = "finally"]
        ELSE overlap' = [overlap EXCEPT
                !.cross = Touched(r, owner, {overlap.pc[r]}),
                !.acts[r] = IF overlap.pc[r] = "act" THEN @ + 1 ELSE @,
                !.pc[r] = IF overlap.pc[r] = "navigate" THEN "capture" ELSE "loop"]
    /\ UNCHANGED <<mainVars, dispatch, builder, pointer, gate>>

\* the model call and the decision: a batch to execute, or the end of the loop
OverlapDecide(r) ==
    /\ overlap.pc[r] = "loop"
    /\ \/ /\ overlap.acts[r] < MaxOverlapActs
          /\ overlap' = [overlap EXCEPT !.pc[r] = "act"]
       \/ overlap' = [overlap EXCEPT !.pc[r] = "finally"]
    /\ UNCHANGED <<mainVars, dispatch, builder, pointer, gate>>

\* the finally clause: "if self.browser and self.browser.page: capture_screen()" and
\* close(), which closes and clears whatever the manager holds
OverlapFinally(r) ==
    /\ overlap.pc[r] = "finally"
    /\ LET owner == overlap.page[overlap.manager[r]] IN
        overlap' = [overlap EXCEPT
            !.cross = IF owner = 0 THEN @ ELSE Touched(r, owner, {"capture", "release"}),
            !.page[overlap.manager[r]] = 0,
            !.pc[r] = "done"]
    /\ UNCHANGED <<mainVars, dispatch, builder, pointer, gate>>

OverlapNext ==
    \/ Construct
    \/ \E r \in OverlapRuns : OverlapStart(r)
    \/ \E r \in OverlapRuns : OverlapUse(r)
    \/ \E r \in OverlapRuns : OverlapDecide(r)
    \/ \E r \in OverlapRuns : OverlapFinally(r)

OverlapInit == Init /\ max_turns = 1 /\ auto_proceed = FALSE

OverlapSpec == OverlapInit /\ [][OverlapNext]_vars

-----------------------------------------------------------------------------
(* FunctionSchemaBuilder: the schema of a callable's parameters.              *)
(* A type hint is a record [kind, name, args, values]:                         *)
(*   kind "class": a plain class (str, int, list, tuple, NoneType, a class of  *)
(*        the caller); get_origin is None                                      *)
(*   kind "enum": a subclass of Enum; values are the declared values in order, *)
(*        a repeated value declaring an alias                                  *)
(*   kind "generic": typing.List / typing.Tuple / list[...] / tuple[...];      *)
(*        name is get_origin, args is get_args                                 *)
(*   kind "union": Optional[T] / Union[...]; args is get_args                  *)
(*   kind "annotated": Annotated[T, m1, ..]; args is <<T>>, values is the      *)
(*        metadata, and get_args is T followed by the metadata                 *)

MaxTypeDepth == 2
MaxParams == 2

Class(n) == [kind |-> "class", name |-> n, args |-> <<>>, values |-> <<>>]
EnumClass(n, vs) == [kind |-> "enum", name |-> n, args |-> <<>>, values |-> vs]
Generic(origin, as) == [kind |-> "generic", name |-> origin, args |-> as, values |-> <<>>]
NoneType == Class("NoneType")

\* typing.Union[...]: nested unions are flattened and repeated members dropped; a
\* union of one member is that member
UnionOf(as) ==
    LET Flat[i \in 0..Len(as)] ==
            IF i = 0 THEN <<>>
            ELSE Flat[i - 1] \o (IF as[i].kind = "union" THEN as[i].args ELSE <<as[i]>>)
        flat == Flat[Len(as)]
        Dedup[i \in 0..Len(flat)] ==
            IF i = 0 THEN <<>>
            ELSE IF \E j \in 1..(i - 1) : flat[j] = flat[i]
                 THEN Dedup[i - 1]
                 ELSE Append(Dedup[i - 1], flat[i])
        members == Dedup[Len(flat)]
    IN  IF Len(members) = 1
        THEN members[1]
        ELSE [kind |-> "union", name |-> "Union", args |-> members, values |-> <<>>]

\* Optional[T], which is Union[T, None]
OptionalOf(t) == UnionOf(<<t, NoneType>>)

\* Annotated[T, m1, ..]: an annotated T takes the further metadata
AnnotatedOf(t, meta) ==
    IF t.kind = "annotated"
    THEN [t EXCEPT !.values = @ \o meta]
    ELSE [kind |-> "annotated", name |-> "Annotated", args |-> <<t>>, values |-> meta]

\* typing.get_origin, "None" standing for None
get_origin(t) ==
    CASE t.kind = "generic" -> t.name
      [] t.kind = "union" -> "Union"
      [] t.kind = "annotated" -> "Annotated"
      [] OTHER -> "None"

\* a variant that lists the members last to first
EnumMemberValues_Reversed(t) ==
    LET vs == t.values
        Last1[i \in 0..Len(vs)] ==
            IF i = 0 THEN <<>>
            ELSE IF \E j \in 1..(i - 1) : vs[j] = vs[i]
                 THEN Last1[i - 1]
                 ELSE <<vs[i]>> \o Last1[i - 1]
    IN  Last1[Len(vs)]

\* "for member in py_type": the members of an Enum class in definition order,
\* aliases left out; the values are member.value
EnumMemberValues(t) ==
    LET vs == t.values
        First[i \in 0..Len(vs)] ==
            IF i = 0 THEN <<>>
            ELSE IF \E j \in 1..(i - 1) : vs[j] = vs[i]
                 THEN First[i - 1]
                 ELSE Append(First[i - 1], vs[i])
    IN  First[Len(vs)]

Color == EnumClass("Color", <<"red", "green">>)
Key == EnumClass("Key", <<"enter", "tab", "enter">>)

\* hints without a type argument: classes of PYTHON_TO_OPENAPI_TYPE_MAP, bare tuple,
\* a class the map does not know, typing.List and typing.Tuple, two Enum classes
BaseTypes ==
    {Class(n) : n \in {"str", "int", "bool", "dict", "list", "tuple", "Custom"}}
        \cup {Generic("list", <<>>), Generic("tuple", <<>>), Color, Key}

\* the hints with at most d nested type constructors
RECURSIVE Types(_)
Types(d) ==
    IF d = 0 THEN BaseTypes
    ELSE LET ts == Types(d - 1) IN
         ts \cup {Generic("list", <<t>>) : t \in ts}
            \cup {Generic("tuple", <<t, Class("str")>>) : t \in ts}
            \cup {OptionalOf(t) : t \in ts}
            \cup {UnionOf(<<NoneType, t>>) : t \in ts}
            \cup {AnnotatedOf(t, <<"The value.">>) : t \in ts}
            \cup {AnnotatedOf(t, <<"The value.", "unit: px">>) : t \in ts}

\* PYTHON_TO_OPENAPI_TYPE_MAP.get(py_type, OpenAPITypes.STRING): the key is the class
\* itself, so only a plain class can be found
PYTHON_TO_OPENAPI_TYPE_MAP ==
    [str |-> "string", int |-> "integer", float |-> "number", bool |-> "boolean",
     dict |-> "object", list |-> "array"]

\* the values a parameter default may have; NoneValue is Python's None, which is
\* also what Schema.default holds when no default was given
Literal(k, r) == [kind |-> k, repr |-> r, value |-> r]
NoneValue == Literal("NoneType", "None")
Member(n, v) == [kind |-> "member", repr |-> n, value |-> v]

\* Schema(arg_type, items=None, enum=None): properties {} and required [] by
\* default, description and default None
Schema(arg_type, items, enum) ==
    [arg_type |-> arg_type, properties |-> EmptyDict, required |-> <<>>,
     description |-> None, items |-> items, enum |-> enum, default |-> NoneValue]

\* a variant without the branch for Union
RECURSIVE create_schema_from_type_NoUnion(_)
create_schema_from_type_NoUnion(py_type) ==
    IF get_origin(py_type) \in {"list", "tuple"}
    THEN Schema("array",
                Some(create_schema_from_type_NoUnion(
                        IF py_type.args # <<>> THEN py_type.args[1] ELSE Class("str"))),
                None)
    ELSE IF py_type.kind = "enum"
    THEN Schema("string", None, Some(EnumMemberValues(py_type)))
    ELSE IF py_type.kind = "class" /\ py_type.name \in DOMAIN PYTHON_TO_OPENAPI_TYPE_MAP
    THEN Schema(PYTHON_TO_OPENAPI_TYPE_MAP[py_type.name], None, None)
    ELSE Schema("string", None, None)

\* FunctionSchemaBuilder._create_schema_from_type:
\*   origin list or tuple: ARRAY with items of the first type argument, str if none
\*   origin Union: the schema of the first argument that is not NoneType
\*   a subclass of Enum: STRING with enum = [member.value for member in py_type]
\*   else: the map's entry for the class, STRING if there is none
RECURSIVE create_schema_from_type(_)
create_schema_from_type(py_type) ==
    IF get_origin(py_type) \in {"list", "tuple"}
    THEN Schema("array",
                Some(create_schema_from_type(
                        IF py_type.args # <<>> THEN py_type.args[1] ELSE Class("str"))),
                None)
    ELSE IF get_origin(py_type) = "Union"
            /\ SelectSeq(py_type.args, LAMBDA a : a # NoneType) # <<>>
    THEN create_schema_from_type(SelectSeq(py_type.args, LAMBDA a : a # NoneType)[1])
    ELSE IF py_type.kind = "enum"
    THEN Schema("string", None, Some(EnumMemberValues(py_type)))
    ELSE IF py_type.kind = "class" /\ py_type.name \in DOMAIN PYTHON_TO_OPENAPI_TYPE_MAP
    THEN Schema(PYTHON_TO_OPENAPI_TYPE_MAP[py_type.name], None, None)
    ELSE Schema("string", None, None)

\* Schema.oas_format: a key is written when its value is truthy (description,
\* properties, required, items, enum), and "default" when it is not None; the
\* default of an Enum member is written as the member's value
RECURSIVE oas_format(_)
oas_format(schema) ==
    [type |-> schema.arg_type]
    @@ (IF schema.description # None /\ schema.description # Some("")
        THEN [description |-> schema.description[1]] ELSE EmptyDict)
    @@ (IF DOMAIN schema.properties # {}
        THEN [properties |-> [k \in DOMAIN schema.properties |->
                                    oas_format(schema.properties[k])]]
        ELSE EmptyDict)
    @@ (IF schema.required # <<>> THEN [required |-> schema.required] ELSE EmptyDict)
    @@ (IF schema.items # None THEN [items |-> oas_format(schema.items[1])] ELSE EmptyDict)
    @@ (IF schema.enum # None /\ schema.enum # Some(<<>>)
        THEN [enum |-> schema.enum[1]] ELSE EmptyDict)
    @@ (IF schema.default # NoneValue
        THEN [default |-> IF schema.default.kind = "member"
                          THEN Literal("str", schema.default.value)
                          ELSE schema.default]
        ELSE EmptyDict)

\* the hints and the defaults of the parameters of the signatures
ParamHints ==
    {None} \cup {Some(t) : t \in {Class("int"), Class("list"), Color,
                                  OptionalOf(Class("int")),
                                  AnnotatedOf(Class("int"), <<"The value.">>),
                                  AnnotatedOf(Class("int"), <<"The value.", "unit: px">>)}}

DefaultValues ==
    {NoneValue, Literal("bool", "False"), Literal("int", "0"), Literal("str", ""),
     Member("Color.RED", "red")}

\* a parameter of inspect.signature(func); default None stands for Parameter.empty,
\* hint None for a name that get_type_hints does not list
Parameter(kind, hint, default) == [kind |-> kind, hint |-> hint, default |-> default]

Parameters ==
    {Parameter("POSITIONAL_OR_KEYWORD", h, None) : h \in ParamHints}
        \cup {Parameter("POSITIONAL_OR_KEYWORD", h, Some(d)) :
                h \in {None, Some(Class("int")), Some(Color), Some(OptionalOf(Class("int")))},
                d \in DefaultValues}
        \cup {Parameter("VAR_POSITIONAL", None, None), Parameter("VAR_KEYWORD", None, None),
              Parameter("SELF", None, None)}

\* the name of the parameter at position i
NameOf(p, i) == IF p.kind = "SELF" THEN "self" ELSE <<"x", "y", "z", "w">>[i]

\* the signatures of at most MaxParams parameters
Signatures ==
    {[i \in 1..Len(ps) |-> [name |-> NameOf(ps[i], i)] @@ ps[i]] :
        ps \in SeqUpTo(Parameters, MaxParams)}

\* "_create_schema_from_type(py_type)" called on a hint
CreateSchemaFromType ==
    /\ builder.pc = "idle"
    /\ \E py_type \in Types(MaxTypeDepth) :
        builder' = [pc |-> "typed", py_type |-> py_type,
                    schema |-> create_schema_from_type(py_type)]
    /\ UNCHANGED <<mainVars, dispatch, overlap, pointer, gate>>

\* FunctionSchemaBuilder.__init__ up to the call of _process_parameters
BuilderNew ==
    /\ builder.pc = "idle"
    /\ \E func \in Signatures :
        builder' = [pc |-> "params", func |-> func, i |-> 1,
                    properties |-> EmptyDict, required |-> <<>>]
    /\ UNCHANGED <<mainVars, dispatch, overlap, pointer, gate>>

\* a variant that puts each new name in front
Required_Prepend(required, param) ==
    IF param.default = None THEN <<param.name>> \o required ELSE required

\* "if param.default is not inspect.Parameter.empty: param_schema.default = ...
\*  else: self.required.append(name)"
Required(required, param) ==
    IF param.default = None THEN Append(required, param.name) ELSE required

\* one iteration of the loop of _process_parameters
ProcessParameter ==
    /\ builder.pc = "params"
    /\ builder.i <= Len(builder.func)
    /\ LET param == builder.func[builder.i]
           py_type == IF param.hint = None THEN Class("str") ELSE param.hint[1]
           annotated == get_origin(py_type) = "Annotated"
           actual_type == IF annotated THEN py_type.args[1] ELSE py_type
           description == IF annotated THEN py_type.values[1]
                          ELSE "Parameter '" \o param.name \o "'."
           param_schema == [create_schema_from_type(actual_type) EXCEPT
                                !.description = Some(description),
                                !.default = IF param.default # None
                                            THEN param.default[1] ELSE @]
       IN  IF param.name = "self" \/ param.kind \in {"VAR_POSITIONAL", "VAR_KEYWORD"}
           THEN builder' = [builder EXCEPT !.i = @ + 1]
           ELSE IF annotated /\ 1 + Len(py_type.values) # 2
           THEN \* "actual_type, description_annotation = get_args(py_type)"
                builder' = [pc |-> "raised", func |-> builder.func,
                            error |-> "too many values to unpack (expected 2)"]
           ELSE builder' = [builder EXCEPT
                                !.i = @ + 1,
                                !.required = Required(@, param),
                                !.properties = (param.name :> param_schema) @@ @]
    /\ UNCHANGED <<mainVars, dispatch, overlap, pointer, gate>>

\* FunctionSchemaBuilder.build
Build ==
    /\ builder.pc = "params"
    /\ builder.i > Len(builder.func)
    /\ builder' = [pc |-> "built", func |-> builder.func,
                   schema |-> [Schema("object", None, None) EXCEPT
                                    !.properties = builder.properties,
                                    !.required = builder.required]]
    /\ UNCHANGED <<mainVars, dispatch, overlap, pointer, gate>>

\* FunctionDeclaration.oas_format, the entry "parameters": self.parameters.oas_format()
OasFormat ==
    /\ builder.pc = "built"
    /\ builder' = [pc |-> "emitted", func |-> builder.func, schema |-> builder.schema,
                   emitted |-> oas_format(builder.schema)]
    /\ UNCHANGED <<mainVars, dispatch, overlap, pointer, gate>>

SchemaNext ==
    \/ CreateSchemaFromType
    \/ BuilderNew
    \/ ProcessParameter
    \/ Build
    \/ OasFormat

SchemaInit == Init /\ max_turns = 1 /\ auto_proceed = FALSE

SchemaSpec == SchemaInit /\ [][SchemaNext]_vars

-----------------------------------------------------------------------------
(* The handlers of BrowserManager that take normalized coordinates, and the    *)
(* pixel positions they send to page.mouse.                                    *)

MaxPointerCalls == 1

\* normalized coordinates ("Gemini gives 0-1000 normalized pixels"): the ends of
\* the grid and points inside it
Coordinates == {0, 175, 500, 999, 1000}

\* (page_width, page_height) of a manager: the defaults, and another size
PageSizes == {<<1440, 900>>, <<800, 600>>}

\* the pairs (c, d) of the coordinates and dimensions above for which the double
\* c / 1000 * d lies just below the integer c * d / 1000: 0.175 * 1440 is
\* 251.99999999999997 in IEEE-754 arithmetic
RoundedDown == {<<175, 1440>>}

\* "int(x / 1000 * width)": true division, product, truncation
denormalize_x(x, width) ==
    (x * width) \div 1000 - (IF <<x, width>> \in RoundedDown THEN 1 ELSE 0)

\* "int(y / 1000 * height)"
denormalize_y(y, height) ==
    (y * height) \div 1000 - (IF <<y, height>> \in RoundedDown THEN 1 ELSE 0)

\* BrowserManager(page_width, page_height)
ManagerNew ==
    /\ pointer.pc = "idle"
    /\ \E size \in PageSizes :
        pointer' = [pc |-> "ready", width |-> size[1], height |-> size[2], sent |-> <<>>,
                    calls |-> 0]
    /\ UNCHANGED <<mainVars, dispatch, overlap, builder, gate>>

\* a position sent to page.mouse by handler "action" for its argument pair "which"
Sent1(action, which, x, y, px, py) ==
    [action |-> action, which |-> which, x |-> x, y |-> y, px |-> px, py |-> py]

\* a handler that scales its one coordinate pair and sends it to the mouse
PointAt(action) ==
    /\ pointer.pc = "ready"
    /\ pointer.calls < MaxPointerCalls
    /\ \E x \in Coordinates, y \in Coordinates :
        pointer' = [pointer EXCEPT
            !.calls = @ + 1,
            !.sent = Append(@, Sent1(action, "position", x, y,
                                     denormalize_x(x, pointer.width),
                                     denormalize_y(y, pointer.height)))]
    /\ UNCHANGED <<mainVars, dispatch, overlap, builder, gate>>

\* click_at: page.mouse.click(denormalize_x(x, width=self.width), ...)
ClickAt == PointAt("click_at")

\* hover_at: page.mouse.move(...)
HoverAt == PointAt("hover_at")

\* type_text_at: page.mouse.click(px, py), then the keyboard
TypeTextAt == PointAt("type_text_at")

\* scroll_at: page.mouse.move(...), then the wheel
ScrollAt == PointAt("scroll_at")

\* drag_and_drop: mouse.move to the source, scaled with self.width and self.height;
\* mouse.down; mouse.move to the destination, scaled by denormalize_x(destination_x)
\* and denormalize_y(destination_y) with their default width 1440 and height 900;
\* mouse.up
DragAndDrop ==
    /\ pointer.pc = "ready"
    /\ pointer.calls < MaxPointerCalls
    /\ \E x \in Coordinates, y \in Coordinates,
          destination_x \in Coordinates, destination_y \in Coordinates :
        pointer' = [pointer EXCEPT
            !.calls = @ + 1,
            !.sent = @ \o <<Sent1("drag_and_drop", "source", x, y,
                                  denormalize_x(x, pointer.width),
                                  denormalize_y(y, pointer.height)),
                            Sent1("drag_and_drop", "destination",
                                  destination_x, destination_y,
                                  denormalize_x(destination_x, 1440),
                                  denormalize_y(destination_y, 900))>>]
    /\ UNCHANGED <<mainVars, dispatch, overlap, builder, gate>>

PointerNext ==
    \/ ManagerNew
    \/ ClickAt
    \/ HoverAt
    \/ TypeTextAt
    \/ ScrollAt
    \/ DragAndDrop

PointerInit == Init /\ max_turns = 1 /\ auto_proceed = FALSE

PointerSpec == PointerInit /\ [][PointerNext]_vars

-----------------------------------------------------------------------------
(* utils.get_safety_confirmation, statement by statement: the read of the      *)
(* explanation, the configuration flag, and the prompt loop.  What the user    *)
(* types is a sequence of characters.                                          *)

MaxPrompts == 2         \* answers the user types in one call
MaxAnswerLen == 3       \* characters in one answer

\* what input() returns: the characters the user typed
Typed == SeqUpTo({"y", "Y", "e", "E", "s", "n", "N", "o"}, MaxAnswerLen)

\* str.lower, character by character
Lower(s) ==
    [i \in DOMAIN s |->
        CASE s[i] = "Y" -> "y"
          [] s[i] = "E" -> "e"
          [] s[i] = "N" -> "n"
          [] OTHER -> s[i]]

\* the call, "logger.info(f'Explanation: {safety_decision['explanation']}')" (the
\* mapping the model sent has the key or not), "if SAFETY_AUTO_PROCEED: return
\* 'CONTINUE'", then "decision = ''"
GetSafetyConfirmation ==
    /\ gate.pc = "idle"
    /\ \E explained \in BOOLEAN :
        gate' =
            IF ~explained
            THEN [pc |-> "raised", error |-> DecisionError, prompts |-> 0]
            ELSE IF auto_proceed
            THEN [pc |-> "returned", ret |-> "CONTINUE", prompts |-> 0, decision |-> <<>>]
            ELSE [pc |-> "while", prompts |-> 0, decision |-> <<>>]
    /\ UNCHANGED <<mainVars, dispatch, overlap, builder, pointer>>

\* "while decision.lower() not in ('y', 'n', 'ye', 'yes', 'no'):
\*      decision = input(...)": one pass of the loop (input returns, or raises
\* EOFError at the end of the input)
Prompt ==
    /\ gate.pc = "while"
    /\ Lower(gate.decision) \notin
          {<<"y">>, <<"n">>, <<"y", "e">>, <<"y", "e", "s">>, <<"n", "o">>}
    /\ gate.prompts < MaxPrompts
    /\ \/ \E typed \in Typed :
            gate' = [gate EXCEPT !.decision = typed, !.prompts = gate.prompts + 1]
       \/ gate' = [pc |-> "raised", error |-> "EOF when reading a line",
                   prompts |-> gate.prompts + 1]
    /\ UNCHANGED <<mainVars, dispatch, overlap, builder, pointer>>

\* the loop has ended: "if decision.lower() in ('n', 'no'): return 'TERMINATE'",
\* "return 'CONTINUE'"
Decide ==
    /\ gate.pc = "while"
    /\ Lower(gate.decision) \in
          {<<"y">>, <<"n">>, <<"y", "e">>, <<"y", "e", "s">>, <<"n", "o">>}
    /\ gate' = [pc |-> "returned",
                ret |-> IF Lower(gate.decision) \in {<<"n">>, <<"n", "o">>}
                        THEN "TERMINATE" ELSE "CONTINUE",
                prompts |-> gate.prompts, decision |-> gate.decision]
    /\ UNCHANGED <<mainVars, dispatch, overlap, builder, pointer>>

GateNext ==
    \/ GetSafetyConfirmation
    \/ Prompt
    \/ Decide

GateSpec == Init /\ [][GateNext]_vars

-----------------------------------------------------------------------------
(* A run whose calls all come back: every external call (a browser operation,  *)
(* a model call, the safety decision) returns or raises, so the step the run   *)
(* is at is eventually taken.  A run is one sequential task.                   *)

MaxFairTurns == 2

\* the flag unset: the safety gate then yields both decisions
FairInit == Init /\ max_turns \in -1..MaxFairTurns /\ auto_proceed = FALSE

\* run(goal), and the steps of the run
FairNext ==
    \/ RunWith({None})
    \/ Start
    \/ Navigate
    \/ CaptureInitial
    \/ ModelCall
    \/ Exhausted
    \/ ExecuteFunctionCall
    \/ RecordHistory
    \/ Observe
    \/ Finally

FairSpec == FairInit /\ [][FairNext]_vars /\ WF_vars(FairNext)

-----------------------------------------------------------------------------
(* The life cycle of one BrowserManager on its own: start and close called by  *)
(* any caller, close as often as the caller likes.  raised holds the exception *)
(* of the latest call.                                                         *)

MaxManagerCalls == 3    \* calls of start, and calls of close

\* BrowserManager.start on a manager that holds no playwright: the handles are
\* assigned in order, and a fault at stage k leaves the first k of them set; a
\* playwright that was started is one that has not been stopped yet
StartManager ==
    /\ ~playwright
    /\ startCalls < MaxManagerCalls
    /\ startCalls' = startCalls + 1
    /\ \E k \in 0..4 :
        /\ playwright' = (k >= 1)
        /\ browser' = (k >= 2)
        /\ context' = (k >= 3)
        /\ page' = (k >= 4)
        /\ stopped' = (IF k >= 1 THEN FALSE ELSE stopped)
        /\ raised' = (IF k = 4 THEN None ELSE Some(StartError))
    /\ UNCHANGED <<configVars, loopVars, outVars, pc, final_screenshot, result, shots,
                   modelCalls, modelLog, execLog, settles, decisions, faults, closeCalls>>

\* BrowserManager.close: browser.close() and playwright.stop() in one try block,
\* the except clause that raises again, the finally clause that clears the handles
CloseManager ==
    /\ closeCalls < MaxManagerCalls
    /\ \E closeOk \in BOOLEAN, stopOk \in BOOLEAN :
        /\ close(closeOk)
        /\ raised' = (IF CloseFails(closeOk, stopOk) THEN Some(CloseError) ELSE None)
    /\ UNCHANGED <<configVars, loopVars, outVars, pc, final_screenshot, result, shots,
                   modelCalls, modelLog, execLog, settles, decisions, faults, startCalls>>

LifeNext ==
    \/ StartManager
    \/ CloseManager

LifeSpec == Init /\ [][LifeNext]_vars

-----------------------------------------------------------------------------
(* Observations used to state the properties *)

Last(q) == q[Len(q)]

Ended == pc \in {"finally", "returned", "raised"}
Returned == pc = "returned"

\* the model turns of a conversation, in order
ModelTurnsOf(cs) == SelectSeq(cs, LAMBDA c : c.role = "model")

\* no part of the turn carries an action request
ZeroCallTurn(content) ==
    \A k \in DOMAIN content.parts : content.parts[k].function_call = None

\* the action requests of the model turns of cs, in order, each with the number
\* of its turn (t turns came before cs)
RECURSIVE RequestsFrom(_, _)
RequestsFrom(cs, t) ==
    IF cs = <<>> THEN <<>>
    ELSE IF cs[1].role # "model" THEN RequestsFrom(Tail(cs), t)
    ELSE LET ps == SelectSeq(cs[1].parts, LAMBDA p : p.function_call # None)
         IN  [k \in 1..Len(ps) |->
                 [turn |-> t + 1, name |-> ps[k].function_call[1].name,
                  args |-> ps[k].function_call[1].args]]
             \o RequestsFrom(Tail(cs), t + 1)

Requests == RequestsFrom(contents, 0)

\* the history entry that belongs to entry e of the dispatch log
EntryOf(e) ==
    [turn |-> e.turn, action_name |-> e.name, action_args |-> e.args,
     result |-> IF "safety_decision" \in e.args
                THEN [safety_acknowledgement |-> "true"] @@ e.result
                ELSE e.result]

Terminated == \E k \in DOMAIN decisions : decisions[k].decision = "TERMINATE"

-----------------------------------------------------------------------------
(* Properties *)

\* C1: when the turn the model returned carries no action request, the run takes
\* the turn's text as the final answer and ends with reason COMPLETED, with no
\* model call and no dispatch after it; when that turn is the first one, nothing
\* was dispatched and the action history is empty.
C1_NoCallsCompletes ==
    (contents # <<>> /\ Last(contents).role = "model" /\ ZeroCallTurn(Last(contents))) =>
        /\ Ended
        /\ termination_reason = "COMPLETED"
        /\ final_response = FinalTextOf(Last(contents))
        /\ modelCalls = Len(ModelTurnsOf(contents))
        /\ Len(execLog) = Len(Requests)
        /\ modelCalls = 1 => (execLog = <<>> /\ action_history = <<>>)
        /\ Returned =>
            /\ result[1].termination_reason = "COMPLETED"
            /\ result[1].final_message = FinalTextOf(Last(contents))
            /\ modelCalls = 1 => result[1].action_history = <<>>

C1_Witness ==
    /\ Returned
    /\ modelCalls = 1
    /\ ZeroCallTurn(Last(contents))
    /\ result[1].termination_reason = "COMPLETED"
    /\ result[1].final_message = "done"
    /\ result[1].action_history = <<>>

\* C2: for max_turns >= 0 the number of model calls made so far never exceeds
\* max_turns.
C2_ModelCallsBounded ==
    max_turns >= 0 => modelCalls <= max_turns

C2_Witness ==
    /\ max_turns >= 2
    /\ modelCalls = max_turns
    /\ Returned

\* C3: a run that leaves the loop with no fault caught and with every model turn
\* carrying action requests (none at all when max_turns = 0) has made max_turns
\* model calls and ends with reason MAX_TURNS_EXCEEDED and a non-empty message.
C3_BudgetExhausted ==
    (/\ Ended
     /\ contents # <<>>
     /\ faults = <<>>
     /\ \A k \in DOMAIN contents :
            contents[k].role = "model" => ~ZeroCallTurn(contents[k])) =>
        /\ termination_reason = "MAX_TURNS_EXCEEDED"
        /\ final_response # ""
        /\ modelCalls = (IF max_turns > 0 THEN max_turns ELSE 0)
        /\ Returned =>
            /\ result[1].termination_reason = "MAX_TURNS_EXCEEDED"
            /\ result[1].final_message # ""

C3_Witness ==
    /\ Returned
    /\ max_turns >= 1
    /\ faults = <<>>
    /\ modelCalls = max_turns
    /\ Len(execLog) >= max_turns
    /\ result[1].termination_reason = "MAX_TURNS_EXCEEDED"

\* C4 (as claimed): a run in which the safety decision was TERMINATE returns a
\* reason other than ERROR and a final message that is no error message.
C4_TerminateIsGraceful ==
    (Returned /\ Terminated) =>
        /\ result[1].termination_reason # "ERROR"
        /\ \A e \in {StartError, NavError, ScreenshotError, ModelError, HandlerError,
                     DecisionError, IndexError, NoCandidatesError} :
                result[1].final_message # ErrorMessage(e)

\* C5: after a TERMINATE decision nothing more is dispatched (the refused request
\* and those after it never reach the executor), no further decision is asked
\* for and the model is not called again.
C5_TerminateStopsBatch ==
    \A k \in DOMAIN decisions :
        decisions[k].decision = "TERMINATE" =>
            /\ k = Len(decisions)
            /\ pc \in {"record", "finally", "returned", "raised"}
            /\ Len(execLog) = decisions[k].dispatched
            /\ modelCalls = decisions[k].modelCalls
            /\ Len(SelectSeq(execLog, LAMBDA e : e.turn = decisions[k].turn))
                  = decisions[k].request - 1
            /\ "safety_decision" \in function_calls[decisions[k].request].args

C5_Witness ==
    /\ Returned
    /\ Terminated
    /\ Last(decisions).request = 2
    /\ Len(function_calls) = 3
    /\ Len(execLog) = 1

\* C6: once a fault is caught in run the reason is ERROR and the final message
\* carries the fault's message, the run is past its loop, and from then on no
\* model call and no dispatch is made.
C6_FaultState ==
    faults # <<>> =>
        /\ Len(faults) = 1
        /\ Ended
        /\ termination_reason = "ERROR"
        /\ final_response = "Agent terminated due to error: " \o faults[1]
        /\ Returned =>
            /\ result[1].termination_reason = "ERROR"
            /\ result[1].final_message = "Agent terminated due to error: " \o faults[1]

C6_FaultAborts ==
    /\ []C6_FaultState
    /\ [][faults # <<>> => (modelCalls' = modelCalls /\ execLog' = execLog)]_vars

C6_Witness ==
    /\ Returned
    /\ faults = <<ScreenshotError>>
    /\ modelCalls = 1
    /\ Len(execLog) = 2
    /\ result[1].termination_reason = "ERROR"

\* C7: when the model call after n fully dispatched turns raises, the run returns
\* reason ERROR, a final message with the raised message, and the action history
\* of exactly the requests of those n turns, each with its own result.
C7_ModelFaultKeepsHistory ==
    (Returned /\ faults = <<ModelError>>) =>
        /\ result[1].termination_reason = "ERROR"
        /\ result[1].final_message = "Agent terminated due to error: " \o ModelError
        /\ modelCalls = Len(ModelTurnsOf(contents)) + 1
        /\ Len(execLog) = Len(Requests)
        /\ Len(result[1].action_history) = Len(Requests)
        /\ \A j \in 1..Len(Requests) :
            /\ execLog[j].turn = Requests[j].turn
            /\ execLog[j].name = Requests[j].name
            /\ execLog[j].args = Requests[j].args
            /\ result[1].action_history[j] = EntryOf(execLog[j])

C7_Witness ==
    /\ Returned
    /\ faults = <<ModelError>>
    /\ modelCalls = 3
    /\ Len(result[1].action_history) = 3
    /\ result[1].action_history[3].turn = 2

\* C8 (as claimed): run raises only when the acquisition of the browser failed.
C8_RunNeverRaises ==
    pc = "raised" => (faults # <<>> /\ faults[1] = StartError)

\* C9 (as claimed): when run has ended, on every path on which browser.start was
\* called browser.close has been called.
C9_AlwaysReleased ==
    (pc \in {"returned", "raised"} /\ startCalls > 0) => closeCalls > 0

\* C10: a handler that raises yields the result {error: message} and no fault of
\* run; the history entry of the request carries that error, entries of a
\* completed batch are all recorded, and the loop goes on.
C10_HandlerFaultIsData ==
    /\ \A j \in DOMAIN execLog :
        execLog[j].handler = "raised" =>
            /\ execLog[j].result = [error |-> HandlerError]
            /\ j <= Len(action_history) =>
                /\ action_history[j].action_name = execLog[j].name
                /\ "error" \in DOMAIN action_history[j].result
                /\ action_history[j].result.error = HandlerError
    /\ \A k \in DOMAIN faults : faults[k] # HandlerError
    /\ pc \in {"observe", "loop"} => Len(action_history) = Len(execLog)
    /\ (pc = "record" /\ ~Terminated) => Len(results) = Len(function_calls)

C10_Witness ==
    /\ Returned
    /\ faults = <<>>
    /\ modelCalls = 2
    /\ execLog[1].handler = "raised"
    /\ result[1].action_history[1].result = [error |-> HandlerError]
    /\ result[1].termination_reason = "COMPLETED"

\* the number of dispatches whose handler returned
HandlersReturned == Cardinality({j \in DOMAIN execLog : execLog[j].handler = "returned"})

\* C11: a request whose name is not registered invokes no handler and yields the
\* result {warning: text naming the action}; no settle wait is made for it (the
\* settle waits are those of the handlers that returned), no fault is caught for
\* it, and its batch goes on: the entry reaches the action history with that
\* warning unless the batch is still running or was cut by the safety gate.
C11_UnknownActionWarns ==
    /\ \A j \in DOMAIN execLog :
        execLog[j].name \notin ActionsMap =>
            /\ execLog[j].handler = "not_invoked"
            /\ DOMAIN execLog[j].result = {"warning"}
            /\ execLog[j].result.warning
                  = "Action " \o execLog[j].name \o " was not implemented"
            /\ \/ /\ j <= Len(action_history)
                  /\ action_history[j].action_name = execLog[j].name
                  /\ "warning" \in DOMAIN action_history[j].result
                  /\ action_history[j].result.warning = execLog[j].result.warning
               \/ pc \in {"execute", "record"} /\ execLog[j].turn = turn + 1
               \/ faults = <<DecisionError>>
    /\ settles = HandlersReturned
    /\ \A k \in DOMAIN faults :
        faults[k] \in {StartError, NavError, ScreenshotError, ModelError,
                       NoCandidatesError, DecisionError, IndexError}

C11_Witness ==
    /\ pc = "loop"
    /\ turn = 1
    /\ faults = <<>>
    /\ Len(execLog) = 2
    /\ execLog[1].name = "fly_to"
    /\ execLog[2].handler = "returned"
    /\ settles = 1
    /\ action_history[1].result = [warning |-> "Action fly_to was not implemented"]
    /\ action_history[2].result = EmptyDict
    /\ Len(contents) = 3
    /\ "warning" \in DOMAIN contents[3].parts[1].function_response[1].response

\* C12 (as claimed): when execute_action returns after it invoked a handler, it has
\* requested the settle wait, whether the handler returned or raised.
C12_SettleAfterEveryAction ==
    (dispatch.pc = "done" /\ dispatch.handler # "none") => dispatch.settle # "none"

\* the outcome of a finished call of execute_action, as the agent loop draws it
OutcomeOf(d) ==
    IF d.handler = "raised" THEN "raise"
    ELSE IF d.settle = "timeout" THEN "settle_timeout"
    ELSE "ok"

\* C13: a settle wait that times out comes after a handler that returned, is
\* followed by the rest of the call, and leaves the result of the call the empty
\* success result; every finished call returns to its caller the result the agent
\* loop appends for that outcome.
C13_SettleTimeoutIgnored ==
    /\ dispatch.settle = "timeout" =>
        /\ dispatch.handler = "returned"
        /\ dispatch.pc \in {"sleep", "done"}
        /\ dispatch.pc = "done" => dispatch.ret = Some(EmptyDict)
    /\ dispatch.pc = "done" =>
        /\ dispatch.ret # None
        /\ dispatch.ret[1] = execute_action(dispatch.name, OutcomeOf(dispatch))
    /\ execute_action("click_at", "settle_timeout") = execute_action("click_at", "ok")

C13_Witness ==
    /\ dispatch.calls = 1
    /\ dispatch.pc = "done"
    /\ dispatch.name = "click_at"
    /\ dispatch.handler = "returned"
    /\ dispatch.settle = "timeout"
    /\ dispatch.ret = Some(EmptyDict)

\* C14: the dispatches made so far are the first requests the model emitted, in
\* the order of emission and none skipped; the results of the running batch are
\* those of its first requests in order; the history entries recorded so far pair,
\* position by position, each dispatched request's turn, name and args with the
\* result of that same dispatch; and once a batch is complete there is one entry
\* per request emitted.
C14_OrderedDispatchAndHistory ==
    /\ LET rs == Requests IN
        /\ Len(execLog) <= Len(rs)
        /\ \A j \in DOMAIN execLog :
            /\ execLog[j].turn = rs[j].turn
            /\ execLog[j].name = rs[j].name
            /\ execLog[j].args = rs[j].args
        /\ pc \in {"observe", "loop"} =>
            /\ Len(action_history) = Len(rs)
            /\ Len(execLog) = Len(rs)
    /\ pc \in {"execute", "record"} =>
        /\ Len(results) <= Len(function_calls)
        /\ Len(results) <= Len(execLog)
        /\ \A i \in DOMAIN results :
            LET e == execLog[Len(execLog) - Len(results) + i] IN
            /\ e.turn = turn + 1
            /\ e.name = function_calls[i].name
            /\ e.args = function_calls[i].args
            /\ results[i] = <<e.name, EntryOf(e).result>>
    /\ Len(action_history) <= Len(execLog)
    /\ \A j \in DOMAIN action_history : action_history[j] = EntryOf(execLog[j])

C14_Witness ==
    /\ Returned
    /\ Len(result[1].action_history) = 3
    /\ execLog[1].turn = 1 /\ execLog[2].turn = 1 /\ execLog[3].turn = 2
    /\ result[1].action_history[1].action_name = "click_at"
    /\ result[1].action_history[1].result = [error |-> HandlerError]
    /\ result[1].action_history[2].action_name = "fly_to"
    /\ "warning" \in DOMAIN result[1].action_history[2].result
    /\ result[1].action_history[3].result = EmptyDict

\* the dispatches of the turns before turn t
DispatchedBefore(t) == Cardinality({j \in DOMAIN execLog : execLog[j].turn < t})

\* C15: every action-response turn of the conversation follows the model turn of
\* its batch and has one part per request of that batch, in order, each carrying
\* the current url, the result of that request's dispatch and one and the same
\* observation: the screenshot taken after the batch, which is the next one after
\* the observation of the turn before.  While the loop runs the page has produced
\* one screenshot for the goal and one per completed batch, none per action.
C15_OneObservationPerBatch ==
    /\ \A k \in DOMAIN contents :
        (k > 1 /\ contents[k].role = "user") =>
            LET ps == contents[k].parts
                batch == FunctionCallsOf(contents[k - 1])
                t == k \div 2
                before == DispatchedBefore(t)
            IN  /\ contents[k - 1].role = "model"
                /\ Len(ps) = Len(batch)
                /\ Len(ps) > 0
                /\ \A i \in DOMAIN ps :
                    /\ ps[i].function_response # None
                    /\ ps[i].function_response[1].name = batch[i].name
                    /\ ps[i].function_response[1].data = t + 1
                    /\ ps[i].function_response[1].response
                          = EntryOf(execLog[before + i]).result
                              @@ [url |-> CurrentUrl]
    /\ pc \in {"loop", "execute", "record", "observe"} =>
        shots = 1 + (Len(contents) - 1) \div 2

C15_Witness ==
    /\ pc = "loop"
    /\ Len(contents) = 5
    /\ shots = 3
    /\ Len(contents[3].parts) = 2
    /\ contents[3].parts[1].function_response[1].data = 2
    /\ contents[3].parts[2].function_response[1].data = 2
    /\ contents[3].parts[1].function_response[1].response
          # contents[3].parts[2].function_response[1].response
    /\ contents[5].parts[1].function_response[1].data = 3

\* a is an initial part of b
IsPrefix(a, b) == Len(a) <= Len(b) /\ SubSeq(b, 1, Len(a)) = a

\* C16: the latest model call (call number n) was sent the whole conversation as
\* it was at the call, 2n-1 turns: the goal turn, then every earlier model turn,
\* each followed by its action-response turn; the turn the call returned stands
\* right after them.  Every step leaves the conversation as it was or extends it
\* at its end, and a turn the model returns is appended in the step of the call.
C16_ConversationState ==
    /\ modelLog = None <=> modelCalls = 0
    /\ modelLog # None =>
        LET m == modelLog[1]
            n == modelCalls
        IN  /\ m.whole
            /\ m.turns = 2 * n - 1
            /\ m.turns <= Len(contents)
            /\ \A k \in 1..m.turns :
                contents[k].role = (IF k % 2 = 0 THEN "model" ELSE "user")
            /\ m.reply # None =>
                (Len(contents) >= 2 * n /\ contents[2 * n] = m.reply[1])
            /\ m.reply = None => Len(contents) = 2 * n - 1

C16_AppendOnly ==
    /\ []C16_ConversationState
    /\ [][/\ IsPrefix(contents, contents')
          /\ modelCalls' # modelCalls =>
                /\ modelLog'[1].whole
                /\ modelLog'[1].turns = Len(contents)
                /\ modelLog'[1].reply # None =>
                        contents' = Append(contents, modelLog'[1].reply[1])
                /\ modelLog'[1].reply = None => contents' = contents]_vars

C16_Witness ==
    /\ Returned
    /\ modelCalls = 3
    /\ Len(contents) = 6
    /\ modelLog[1].whole
    /\ modelLog[1].turns = 5
    /\ contents[4].role = "model"
    /\ contents[5].role = "user"
    /\ Len(contents[5].parts) = 2
    /\ contents[6] = modelLog[1].reply[1]

\* C17 (as claimed): whatever the reason a run returns with, its action history
\* has one entry per request that was dispatched to the executor, in dispatch
\* order.
C17_OneEntryPerDispatch ==
    Returned =>
        /\ Len(result[1].action_history) = Len(execLog)
        /\ \A j \in DOMAIN execLog :
            /\ result[1].action_history[j].action_name = execLog[j].name
            /\ result[1].action_history[j].turn = execLog[j].turn

\* the result record r carries the acknowledgement next to all that the executor
\* returned for the dispatch e
Acknowledged(r, e) ==
    /\ DOMAIN r = {"safety_acknowledgement"} \cup DOMAIN e.result
    /\ r.safety_acknowledgement = "true"
    /\ \A key \in DOMAIN e.result : r[key] = e.result[key]

\* C18: every CONTINUE decision is followed at once by the dispatch of the flagged
\* request it was asked for, and the result record of that request (in the
\* results of its batch, and in the action history once recorded) carries
\* safety_acknowledgement "true" next to whatever the executor returned, a warning
\* or an error included.
C18_ContinueAcknowledged ==
    \A k \in DOMAIN decisions :
        decisions[k].decision = "CONTINUE" =>
            LET j == decisions[k].dispatched + 1 IN
            /\ j <= Len(execLog)
            /\ execLog[j].turn = decisions[k].turn
            /\ "safety_decision" \in execLog[j].args
            /\ (pc \in {"execute", "record"} /\ decisions[k].turn = turn + 1) =>
                /\ decisions[k].request <= Len(results)
                /\ Acknowledged(results[decisions[k].request][2], execLog[j])
            /\ j <= Len(action_history) =>
                Acknowledged(action_history[j].result, execLog[j])

C18_Witness ==
    /\ pc = "loop"
    /\ Len(decisions) = 2
    /\ decisions[1].decision = "CONTINUE" /\ decisions[2].decision = "CONTINUE"
    /\ Len(action_history) = 2
    /\ action_history[1].result
          = [safety_acknowledgement |-> "true",
             warning |-> "Action fly_to was not implemented"]
    /\ action_history[2].result
          = [safety_acknowledgement |-> "true", error |-> HandlerError]

\* the dispatches of requests that carry the reserved key
FlaggedDispatches == {j \in DOMAIN execLog : "safety_decision" \in execLog[j].args}

\* C19: every dispatch of a request that carries safety_decision comes right after
\* a decision asked for that request, and that decision was CONTINUE; every
\* decision was asked for a request that carries the key, each for another
\* request; and there are no more decisions than flagged dispatches, plus the
\* one that refused: none was asked for a request without the key.
C19_GateBeforeDispatch ==
    LET flagged == FlaggedDispatches
        rs == Requests
    IN  /\ \A j \in flagged :
            \E k \in DOMAIN decisions :
                /\ decisions[k].dispatched = j - 1
                /\ decisions[k].turn = execLog[j].turn
                /\ decisions[k].decision = "CONTINUE"
        /\ \A k \in DOMAIN decisions :
            /\ decisions[k].dispatched < Len(rs)
            /\ "safety_decision" \in rs[decisions[k].dispatched + 1].args
            /\ rs[decisions[k].dispatched + 1].turn = decisions[k].turn
            /\ \A l \in DOMAIN decisions :
                k < l => decisions[k].dispatched < decisions[l].dispatched
        /\ Len(decisions) = Cardinality(flagged) + (IF Terminated THEN 1 ELSE 0)

C19_Witness ==
    /\ pc = "loop"
    /\ faults = <<>>
    /\ Len(execLog) = 3
    /\ FlaggedDispatches = {2}
    /\ Len(decisions) = 1
    /\ decisions[1].decision = "CONTINUE"
    /\ decisions[1].dispatched = 1
    /\ decisions[1].request = 2
    /\ Len(action_history) = 3

\* C20: a run that returns with no fault caught and no refusal, and whose last
\* model turn carries no request after k model turns that each carry some, had
\* k < max_turns, made exactly k + 1 model calls, dispatched every request of
\* those k turns, and returns reason COMPLETED with as many history entries as
\* those k turns hold requests.
C20_CompletesAfterKTurns ==
    (/\ Returned
     /\ faults = <<>>
     /\ ~Terminated
     /\ contents # <<>>
     /\ Last(contents).role = "model"
     /\ ZeroCallTurn(Last(contents))) =>
        LET ts == ModelTurnsOf(contents)
            k == Len(ts) - 1
        IN  /\ \A n \in 1..k : ~ZeroCallTurn(ts[n])
            /\ k < max_turns
            /\ modelCalls = k + 1
            /\ Len(execLog) = Len(Requests)
            /\ Len(result[1].action_history) = Len(Requests)
            /\ \A j \in DOMAIN Requests :
                /\ result[1].action_history[j].turn = Requests[j].turn
                /\ result[1].action_history[j].action_name = Requests[j].name
            /\ result[1].termination_reason = "COMPLETED"

C20_Witness ==
    /\ Returned
    /\ faults = <<>>
    /\ max_turns = 3
    /\ modelCalls = 3
    /\ ZeroCallTurn(Last(contents))
    /\ Len(Requests) = 3
    /\ Len(result[1].action_history) = 3
    /\ result[1].action_history[3].turn = 2
    /\ result[1].termination_reason = "COMPLETED"

-----------------------------------------------------------------------------
\* C21: the start of run is ordered: the browser is started, then the page goes to
\* the given url when one is given and is not empty and to the search page
\* otherwise, then the first screenshot is taken, then the first turn is built from
\* the goal and that screenshot; the model is not called before that screenshot,
\* and its first request is that first turn alone.
C21_InitOrdering ==
    /\ pc \in {"navigate", "capture_initial", "loop", "execute", "record", "observe"}
            => startCalls = 1 /\ page
    /\ visited # None =>
            /\ startCalls = 1
            /\ StartError \notin {faults[i] : i \in 1..Len(faults)}
            /\ visited = IF initial_url \in {None, Some("")}
                         THEN Some(SearchUrl)
                         ELSE initial_url
    /\ pc = "capture_initial" => visited # None /\ shots = 0 /\ contents = <<>>
    /\ pc \in {"start", "navigate", "capture_initial", "loop", "execute", "record",
              "observe"} /\ shots >= 1 => visited # None
    /\ contents # <<>> =>
            /\ shots >= 1
            /\ contents[1] = [role |-> "user", parts |-> <<TextPart(Goal), ImagePart(1)>>]
    /\ pc \in {"loop", "execute", "record", "observe"} => contents # <<>>
    /\ modelCalls >= 1 => shots >= 1 /\ contents # <<>>
    /\ modelCalls = 1 /\ modelLog # None => modelLog[1].turns = 1 /\ modelLog[1].whole

\* a run called with a url has made its first model call with that url visited
C21_Witness ==
    /\ initial_url = Some(GivenUrl)
    /\ visited = Some(GivenUrl)
    /\ modelCalls = 1
    /\ shots = 1
    /\ Len(contents) = 2
    /\ contents[1] = build_initial_message(Goal, 1)[1]

-----------------------------------------------------------------------------
\* C22: the blocking and the cooperative run are equivalent: from every reachable
\* state the two make the same steps, for every max_turns, initial url, model
\* response, safety answer and executor outcome; so they issue the same browser
\* and model operations (the operation histories are part of the state) and
\* return the same termination reason, final message and action history.
C22_SameSteps ==
    /\ ~ ENABLED (ShortNext /\ ~AsyncShortNext)
    /\ ~ ENABLED (AsyncShortNext /\ ~ShortNext)

\* a run of at least one batch with a confirmed request has returned
C22_Witness ==
    /\ Returned
    /\ Len(result[1].action_history) >= 1
    /\ Len(decisions) >= 1
    /\ modelCalls >= 1

-----------------------------------------------------------------------------
\* C23: of two runs that overlap in time, neither uses nor releases the surface
\* the other one started.
C23_RunsIsolated == overlap.cross = {}

\* two runs on managers of their own never touch each other's surface
C23_SeparateManagersIsolated == overlap.manager = <<1, 2>> => overlap.cross = {}

-----------------------------------------------------------------------------
\* the parameters of a signature that _process_parameters does not skip
Kept(func) ==
    SelectSeq(func, LAMBDA p : p.name # "self"
                               /\ p.kind \notin {"VAR_POSITIONAL", "VAR_KEYWORD"})

\* the names of the parameters of a sequence, in its order
Names(ps) == [i \in 1..Len(ps) |-> ps[i].name]

\* C24: the required list of a generated schema is the names of the non-skipped
\* parameters that have no default, in declaration order, and no parameter with a
\* default is in it; the emitted dictionary carries that list when it is not empty.
C24_RequiredIffNoDefault ==
    builder.pc \in {"built", "emitted"} =>
        LET kept == Kept(builder.func)
            expected == Names(SelectSeq(kept, LAMBDA p : p.default = None))
            required == builder.schema.required
        IN  /\ required = expected
            /\ \A i \in 1..Len(kept) :
                    (kept[i].default = None)
                        <=> (\E j \in 1..Len(required) : required[j] = kept[i].name)
            /\ builder.pc = "emitted" =>
                    IF expected = <<>>
                    THEN "required" \notin DOMAIN builder.emitted
                    ELSE /\ "required" \in DOMAIN builder.emitted
                         /\ builder.emitted.required = expected

\* a schema was emitted for a signature of two required parameters
C24_Witness ==
    /\ builder.pc = "emitted"
    /\ Len(builder.func) = 2
    /\ \A i \in 1..2 : builder.func[i].kind = "POSITIONAL_OR_KEYWORD"
                       /\ builder.func[i].default = None
    /\ builder.emitted.required = <<"x", "y">>

\* the hints that may stand inside one more type constructor
InnerTypes == Types(MaxTypeDepth - 1)

C26_EnumValuesInOrder ==
    builder.pc = "typed" /\ builder.py_type.kind = "enum" =>
        LET vs == builder.py_type.values
            FirstAt(v) == CHOOSE i \in 1..Len(vs) :
                            vs[i] = v /\ \A j \in 1..(i - 1) : vs[j] # v
        IN  /\ builder.schema.arg_type = "string"
            /\ builder.schema.enum # None
            /\ LET e == builder.schema.enum[1] IN
                /\ \A i \in 1..Len(vs) : \E k \in 1..Len(e) : e[k] = vs[i]
                /\ \A k \in 1..Len(e) : \E i \in 1..Len(vs) : e[k] = vs[i]
                /\ \A k, l \in 1..Len(e) : k < l => FirstAt(e[k]) < FirstAt(e[l])
                /\ oas_format(builder.schema).enum = e

\* the schema of an Enum class with an alias lists the two members' values
C26_Witness ==
    /\ builder.pc = "typed"
    /\ builder.py_type = Key
    /\ builder.schema.enum = Some(<<"enter", "tab">>)

-----------------------------------------------------------------------------
\* C27: the schema of a sequence type is an array whose items are the schema of
\* its type argument, and the schema of a sequence type without a type argument
\* (bare list, bare tuple, typing.List, typing.Tuple) is an array of string.
C27_SequenceIsArray ==
    builder.pc = "typed"
    /\ (builder.py_type.kind = "generic"
        \/ builder.py_type \in {Class("list"), Class("tuple")}) =>
        LET element == IF builder.py_type.args # <<>>
                       THEN builder.py_type.args[1]
                       ELSE Class("str")
        IN  /\ builder.schema.arg_type = "array"
            /\ builder.schema.items = Some(create_schema_from_type(element))

\* C28: schema synthesis has no error condition: no signature makes the builder
\* raise, and a hint the type map does not know gives a string schema.
C28_AlwaysASchema ==
    /\ builder.pc # "raised"
    /\ builder.pc \in {"built", "emitted"} =>
            \A name \in DOMAIN builder.schema.properties :
                builder.schema.properties[name].arg_type
                    \in {"string", "integer", "array"}

\* C29: in the emitted dictionary, the schema of every parameter that has a
\* default carries it under "default", None, False, 0 and the empty string
\* included; the default of an Enum member is written as the member's value.
C29_DefaultEmitted ==
    builder.pc = "emitted" =>
        LET kept == Kept(builder.func) IN
        \A i \in 1..Len(kept) :
            kept[i].default # None =>
                LET d == kept[i].default[1]
                    emitted == builder.emitted.properties[kept[i].name]
                IN  /\ "default" \in DOMAIN emitted
                    /\ emitted.default = IF d.kind = "member"
                                         THEN Literal("str", d.value)
                                         ELSE d

-----------------------------------------------------------------------------
\* C30: every position a coordinate-bearing handler sends to the mouse is the
\* normalized pair scaled with the manager's own page_width and page_height,
\* the source and the destination of drag_and_drop included, whatever the size
\* the manager was built with.
C30_ScaledWithOwnSize ==
    pointer.pc = "ready" =>
        \A i \in 1..Len(pointer.sent) :
            LET p == pointer.sent[i] IN
            /\ p.px = denormalize_x(p.x, pointer.width)
            /\ p.py = denormalize_y(p.y, pointer.height)

\* C31: a call of execute_action returns one of three results: the empty mapping
\* when the registered handler returned, a mapping with the one key warning when
\* the name is not registered (no handler invoked), a mapping with the one key
\* error when the handler raised; no result carries both warning and error.
C31_ResultShapes ==
    /\ dispatch.pc = "done" =>
        /\ dispatch.ret # None
        /\ dispatch.name \in ActionsMap <=> dispatch.handler # "none"
        /\ dispatch.handler = "returned" => dispatch.ret[1] = EmptyDict
        /\ dispatch.handler = "none" => DOMAIN dispatch.ret[1] = {"warning"}
        /\ dispatch.handler = "raised" => DOMAIN dispatch.ret[1] = {"error"}
    /\ dispatch.ret # None => ~({"warning", "error"} \subseteq DOMAIN dispatch.ret[1])

C31_Witness ==
    /\ dispatch.calls = 1
    /\ dispatch.pc = "done"
    /\ dispatch.name = "click_at"
    /\ dispatch.handler = "returned"
    /\ dispatch.settle = "idle"
    /\ dispatch.ret = Some(EmptyDict)

\* the safety gate stopped the running batch at the request after the dispatched
\* ones: the user refused it, or the decision could not be read
GateCut ==
    /\ Len(results) < Len(function_calls)
    /\ Flagged(function_calls[Len(results) + 1])
    /\ \/ decisions # <<>> /\ Last(decisions).decision = "TERMINATE"
                           /\ Last(decisions).request = Len(results) + 1
       \/ faults = <<DecisionError>>

\* C32: a dispatch that yields an error or a warning result is data for the model:
\* it is no fault of run, the requests after it in the batch are dispatched in
\* their order (unless the batch is still running or the safety gate stopped it at
\* a later request), and the response turn of the batch has one response per
\* request, the failed ones included.
C32_FaultsAreData ==
    /\ \A k \in DOMAIN faults : faults[k] \in {DecisionError, IndexError, ScreenshotError}
    /\ Len(execLog) = Len(results)
    /\ \A j \in DOMAIN execLog :
        /\ execLog[j].name = function_calls[j].name
        /\ execLog[j].args = function_calls[j].args
        /\ execLog[j].result # EmptyDict =>
            \/ Len(execLog) = Len(function_calls)
            \/ pc = "execute"
            \/ GateCut /\ Len(results) + 1 > j
    /\ pc = "loop" =>
        /\ Len(execLog) = Len(function_calls)
        /\ Last(contents).role = "user"
        /\ Len(Last(contents).parts) = Len(function_calls)
        /\ \A j \in DOMAIN execLog :
            \A key \in DOMAIN execLog[j].result :
                /\ key \in DOMAIN Last(contents).parts[j].function_response[1].response
                /\ Last(contents).parts[j].function_response[1].response[key]
                      = execLog[j].result[key]

C32_Witness ==
    /\ pc = "loop"
    /\ faults = <<>>
    /\ Len(function_calls) = 3
    /\ execLog[1].result = [error |-> HandlerError]
    /\ DOMAIN execLog[2].result = {"warning"}
    /\ execLog[3].result = EmptyDict
    /\ Len(Last(contents).parts) = 3
    /\ Last(contents).parts[1].function_response[1].response.error = HandlerError

\* the string made of the characters of s
RECURSIVE Word(_)
Word(s) == IF s = <<>> THEN "" ELSE s[1] \o Word(Tail(s))

\* C33 (as claimed): every call of get_safety_confirmation ends with a decision:
\* with the auto-proceed flag set it returns CONTINUE and has not prompted; with
\* the flag unset it prompts until the lower-cased answer is one of y, ye, yes, n,
\* no, then returns TERMINATE for n and no, CONTINUE for y, ye and yes.
C33_AlwaysDecides ==
    /\ gate.pc = "returned" => gate.ret \in {"CONTINUE", "TERMINATE"}
    /\ (gate.pc # "idle" /\ auto_proceed) =>
        /\ gate.pc = "returned"
        /\ gate.ret = "CONTINUE"
        /\ gate.prompts = 0
    /\ (gate.pc # "idle" /\ ~auto_proceed) =>
        /\ gate.pc \in {"while", "returned"}
        /\ gate.pc = "returned" =>
            /\ gate.prompts >= 1
            /\ Word(Lower(gate.decision)) \in Answers
            /\ gate.ret = "TERMINATE" <=> Word(Lower(gate.decision)) \in {"n", "no"}
            /\ gate.ret = "CONTINUE" <=> Word(Lower(gate.decision)) \in {"y", "ye", "yes"}

\* what holds of the calls that return: the decision is CONTINUE or TERMINATE, the
\* one the agent loop takes for the flag and the answer, and the prompt was shown
\* only with the flag unset
C33_DecisionWhenReturned ==
    gate.pc = "returned" =>
        /\ gate.ret \in {"CONTINUE", "TERMINATE"}
        /\ auto_proceed => (gate.ret = "CONTINUE" /\ gate.prompts = 0)
        /\ ~auto_proceed =>
            /\ gate.prompts >= 1
            /\ Word(Lower(gate.decision)) \in Answers
            /\ gate.ret = get_safety_confirmation(auto_proceed, Word(Lower(gate.decision)))

\* C34: a run whose external calls all come back ends: once called, run reaches
\* its return or its raise, and it never makes more loop iterations (each begins
\* with a model call) than max_turns, whatever the model answers.
C34_RunTerminates ==
    /\ (pc = "start") ~> (pc \in {"returned", "raised"})
    /\ [](modelCalls <= (IF max_turns > 0 THEN max_turns ELSE 0))
    /\ [](pc \in {"returned", "raised"} => ~ENABLED FairNext)

C34_Witness ==
    /\ Returned
    /\ max_turns = MaxFairTurns
    /\ modelCalls = max_turns
    /\ Len(execLog) >= max_turns
    /\ termination_reason = "MAX_TURNS_EXCEEDED"

\* C35: the conversation begins with the user turn made of the goal and the
\* initial image, and its turns alternate user, model, user, ...; the n-th model
\* call is sent the whole conversation, of 2n-1 turns, which ends with a user
\* turn; and every action-response turn answers a batch all of whose requests
\* were dispatched (one response per request of the model turn before it).
C35_ConversationShape ==
    /\ contents # <<>> =>
        /\ contents[1].role = "user"
        /\ Len(contents[1].parts) = 2
        /\ contents[1].parts[1] = TextPart(Goal)
        /\ contents[1].parts[2].inline_data # None
    /\ \A k \in DOMAIN contents :
        contents[k].role = (IF k % 2 = 1 THEN "user" ELSE "model")
    /\ modelLog # None =>
        /\ modelLog[1].whole
        /\ modelLog[1].turns = 2 * modelCalls - 1
    /\ pc = "loop" => Len(contents) = 2 * modelCalls + 1
    /\ \A k \in DOMAIN contents :
        (k > 1 /\ k % 2 = 1) =>
            LET batch == FunctionCallsOf(contents[k - 1])
                done == SelectSeq(execLog, LAMBDA e : e.turn = (k - 1) \div 2)
            IN  /\ batch # <<>>
                /\ Len(done) = Len(batch)
                /\ Len(contents[k].parts) = Len(batch)
                /\ \A j \in DOMAIN batch :
                    /\ done[j].name = batch[j].name
                    /\ contents[k].parts[j].function_response # None

C35_Witness ==
    /\ modelCalls = 2
    /\ modelLog[1].turns = 3
    /\ Len(contents) = 4
    /\ Len(FunctionCallsOf(contents[2])) = 2
    /\ Len(contents[3].parts) = 2
    /\ Terminated

\* the function responses of a turn, in order
ResponsesOf(content) ==
    LET ps == SelectSeq(content.parts, LAMBDA p : p.function_response # None)
    IN  [k \in 1..Len(ps) |-> ps[k].function_response[1]]

\* the keys and values a response must carry for dispatch e: the current url, the
\* keys of the result of execute_action, and the acknowledgement of a gated request
Expected(e) ==
    [url |-> CurrentUrl] @@ e.result @@
    (IF "safety_decision" \in e.args THEN [safety_acknowledgement |-> "true"] ELSE EmptyDict)

\* C36: the action-response turn of a batch is a user turn with exactly one
\* function response per executed action, in the order of execution, named as the
\* request was; each response maps url to the current url and carries the keys of
\* that action's result (error, warning, safety_acknowledgement) with their
\* values, and nothing else.  The same holds of the turn the standalone client
\* builds from the same results.
C36_OneResponsePerAction ==
    /\ pc = "loop" =>
        LET rs == ResponsesOf(Last(contents)) IN
        /\ Last(contents).role = "user"
        /\ Len(rs) = Len(execLog)
        /\ Len(rs) = Len(Last(contents).parts)
        /\ \A j \in DOMAIN rs :
            /\ rs[j].name = execLog[j].name
            /\ rs[j].name = function_calls[j].name
            /\ rs[j].response = Expected(execLog[j])
            /\ rs[j].response.url = CurrentUrl
            /\ DOMAIN rs[j].response \subseteq
                  {"url", "error", "warning", "safety_acknowledgement"}
    /\ pc \in {"observe", "loop"} =>
        LET turn2 == standalone_build_function_responses_message(shots, CurrentUrl, results)
            rs == ResponsesOf(turn2)
        IN  /\ turn2.role = "user"
            /\ Len(rs) = Len(execLog)
            /\ Len(turn2.parts) = Len(rs) + 1
            /\ \A j \in DOMAIN rs :
                /\ rs[j].name = execLog[j].name
                /\ rs[j].response = Expected(execLog[j])

C36_Witness ==
    /\ pc = "loop"
    /\ Len(execLog) = 3
    /\ LET rs == ResponsesOf(Last(contents)) IN
        /\ Len(rs) = 3
        /\ rs[1].name = "fly_to"
        /\ DOMAIN rs[1].response = {"url", "warning"}
        /\ rs[2].name = "click_at"
        /\ DOMAIN rs[2].response = {"url", "error", "safety_acknowledgement"}
        /\ rs[3].response = [url |-> CurrentUrl]

\* C37 (as claimed): a run whose browser.start raised returns: it made no model
\* call and no dispatch, took no screenshot, called browser.close once, and its
\* result has reason ERROR, an empty action history and an empty screenshot.
C37_StartFaultReturns ==
    (faults # <<>> /\ faults[1] = StartError /\ pc \in {"returned", "raised"}) =>
        /\ pc = "returned"
        /\ modelCalls = 0
        /\ execLog = <<>>
        /\ shots = 0
        /\ closeCalls = 1
        /\ result[1].termination_reason = "ERROR"
        /\ result[1].action_history = <<>>
        /\ result[1].final_screenshot_bytes = None

\* what holds after a fault of browser.start, whether run then returns or raises:
\* no page, no model call, no dispatch, no screenshot, one call of close, and the
\* result, when there is one, is as claimed
C37_StartFaultQuiet ==
    (faults # <<>> /\ faults[1] = StartError) =>
        /\ ~page
        /\ modelCalls = 0 /\ execLog = <<>> /\ shots = 0
        /\ pc \in {"returned", "raised"} => closeCalls = 1
        /\ pc = "raised" => raised = Some(CloseError)
        /\ pc = "returned" =>
            /\ result[1].termination_reason = "ERROR"
            /\ result[1].final_message = ErrorMessage(StartError)
            /\ result[1].action_history = <<>>
            /\ result[1].final_screenshot_bytes = None

\* C38 (as claimed): a call of close, whether it returns or raises, leaves the
\* four handles cleared; a call of close on a manager whose handles are cleared
\* raises nothing and stops nothing; and a call of close on a manager whose
\* playwright was started stops it, also when closing the browser fails.
C38_CloseReleases ==
    [][closeCalls' = closeCalls + 1 =>
        /\ ~playwright' /\ ~browser' /\ ~context' /\ ~page'
        /\ (~playwright /\ ~browser /\ ~context /\ ~page) =>
            (raised' = None /\ stopped' = stopped)
        /\ playwright => stopped']_vars

\* what holds of close: the handles are cleared in every case, and a call on a
\* manager whose handles are cleared raises nothing and stops nothing
C38_HandlesCleared ==
    [][closeCalls' = closeCalls + 1 =>
        /\ ~playwright' /\ ~browser' /\ ~context' /\ ~page'
        /\ (~playwright /\ ~browser /\ ~context /\ ~page) =>
            (raised' = None /\ stopped' = stopped)
        /\ (playwright /\ ~stopped') => (browser /\ raised' = Some(CloseError))]_vars

\* the dimensions a coordinate is scaled with
Dimensions == UNION {{size[1], size[2]} : size \in PageSizes}

\* C39 (as claimed): a position a handler sends for the normalized pair (x, y) on
\* a page of width w and height h is (floor(x*w/1000), floor(y*h/1000)) and lies
\* on the page, 0 .. w-1 by 0 .. h-1; the scaling maps 0 to 0 and is
\* non-decreasing in the coordinate.
C39_FloorInRange ==
    /\ pointer.pc = "ready" =>
        \A i \in 1..Len(pointer.sent) :
            LET p == pointer.sent[i] IN
            p.which = "position" =>
                /\ p.px = (p.x * pointer.width) \div 1000
                /\ p.py = (p.y * pointer.height) \div 1000
                /\ p.px \in 0..(pointer.width - 1)
                /\ p.py \in 0..(pointer.height - 1)
                /\ p.x = 0 => p.px = 0
                /\ p.y = 0 => p.py = 0
    /\ \A d \in Dimensions : \A c1 \in Coordinates, c2 \in Coordinates :
        c1 <= c2 => denormalize_x(c1, d) <= denormalize_x(c2, d)

\* what holds of the positions sent: each is at most one pixel below the exact
\* floor and never beyond the page's width or height themselves; 0 is sent as 0,
\* and the scaling is non-decreasing
C39_WithinOnePixel ==
    /\ pointer.pc = "ready" =>
        \A i \in 1..Len(pointer.sent) :
            LET p == pointer.sent[i] IN
            p.which = "position" =>
                /\ (p.x * pointer.width) \div 1000 - p.px \in {0, 1}
                /\ (p.y * pointer.height) \div 1000 - p.py \in {0, 1}
                /\ p.px \in 0..pointer.width
                /\ p.py \in 0..pointer.height
                /\ p.x = 0 => p.px = 0
                /\ p.y = 0 => p.py = 0
    /\ \A d \in Dimensions : \A c1 \in Coordinates, c2 \in Coordinates :
        c1 <= c2 => /\ denormalize_x(c1, d) <= denormalize_x(c2, d)
                    /\ denormalize_y(c1, d) <= denormalize_y(c2, d)

====
